---------------------------- MODULE Spec2Model ----------------------------
(***************************************************************************)
(* Verification model of the chessie engine core (engine_cpp):             *)
(* board, Zobrist hashing, Position make/unmake, move generation and the   *)
(* iterative-deepening search with its cancellation protocol.              *)
(***************************************************************************)
EXTENDS Integers, Sequences, FiniteSets, TLC

VARIABLES
    pos,        \* the Position object (board_, side_to_move_, ..., key_history_)
    made,       \* caller-side record of the moves made and not yet unmade
    srch,       \* the Search object and the control state of a search() call
    ttab,       \* a TranspositionTable object and the caller's record of its last call
    parse,      \* a descriptor handed to Position::from_fen and what came back
    magic,      \* the globals of magic.cpp and the threads that call magic::init
    pft         \* the control state of a movegen::perft call

vars == <<pos, made, srch, ttab, parse, magic, pft>>

(***************************************************************************)
(* types.hpp: squares, colours, piece types, move flags, castling rights   *)
(***************************************************************************)
kNoSquare == 64
Squares == 0 .. 63

file_of(sq) == sq % 8
rank_of(sq) == sq \div 8
make_square(file, rank) == rank * 8 + file

White == 0
Black == 1
opposite(c) == 1 - c

PT_None == 0
Pawn == 1
Knight == 2
Bishop == 3
Rook == 4
Queen == 5
King == 6

Normal == 0
DoublePawn == 1
EnPassant == 2
CastleKingside == 3
CastleQueenside == 4
Promotion == 5

kWhiteKingside == 1
kWhiteQueenside == 2
kBlackKingside == 4
kBlackQueenside == 8
kWhiteBoth == 3
kBlackBoth == 12
kCastlingAll == 15
kCastlingNone == 0

\* bit test / bitwise-and on the 4-bit castling mask
HasRight(cr, bit) == (cr \div bit) % 2 = 1
CastlingAnd(a, b) ==
    (IF HasRight(a, 1) /\ HasRight(b, 1) THEN 1 ELSE 0) +
    (IF HasRight(a, 2) /\ HasRight(b, 2) THEN 2 ELSE 0) +
    (IF HasRight(a, 4) /\ HasRight(b, 4) THEN 4 ELSE 0) +
    (IF HasRight(a, 8) /\ HasRight(b, 8) THEN 8 ELSE 0)

A1 == 0
E1 == 4
H1 == 7
A8 == 56
E8 == 60
H8 == 63

(***************************************************************************)
(* piece.hpp / move.hpp                                                    *)
(***************************************************************************)
Piece(c, t) == [color |-> c, type |-> t]
kNoPiece == Piece(White, PT_None)

Move(f, t, fl, pr) == [from_sq |-> f, to_sq |-> t, flag |-> fl, promotion |-> pr]
kNullMove == Move(0, 0, Normal, PT_None)
is_null(m) == m.from_sq = 0 /\ m.to_sq = 0 /\ m.flag = Normal /\ m.promotion = PT_None

(***************************************************************************)
(* 64-bit words as eight little-endian bytes (index 1 = least significant) *)
(***************************************************************************)
Bytes == 1 .. 8

\* the bit of weight n (a power of two) of the byte a
Bit(a, n) == (a \div n) % 2

\* the exclusive or of two numbers of n bits
RECURSIVE XorBits(_, _, _)
XorBits(a, b, n) ==
    IF n = 0 THEN 0
    ELSE (((a % 2) + (b % 2)) % 2) + (2 * XorBits(a \div 2, b \div 2, n - 1))

Xor4 == [a \in 0 .. 15 |-> [b \in 0 .. 15 |-> XorBits(a, b, 4)]] @@ << >>

Xor8(a, b) == (16 * Xor4[a \div 16][b \div 16]) + Xor4[a % 16][b % 16]

Xor64(x, y) == [i \in Bytes |-> Xor8(x[i], y[i])]

Zero64 == <<0, 0, 0, 0, 0, 0, 0, 0>>

RECURSIVE AddCarry(_, _, _, _)
AddCarry(x, y, i, carry) ==
    IF i > 8 THEN << >>
    ELSE <<(x[i] + y[i] + carry) % 256>>
         \o AddCarry(x, y, i + 1, (x[i] + y[i] + carry) \div 256)

Add64(x, y) == AddCarry(x, y, 1, 0)

RECURSIVE MulColumn(_, _, _, _)
\* sum of x[i] * y[k + 1 - i] for i = 1 .. k
MulColumn(x, y, k, i) ==
    IF i > k THEN 0 ELSE x[i] * y[k + 1 - i] + MulColumn(x, y, k, i + 1)

RECURSIVE MulCarry(_, _, _, _)
MulCarry(x, y, k, carry) ==
    IF k > 8 THEN << >>
    ELSE <<(MulColumn(x, y, k, 1) + carry) % 256>>
         \o MulCarry(x, y, k + 1, (MulColumn(x, y, k, 1) + carry) \div 256)

Mul64(x, y) == MulCarry(x, y, 1, 0)

Pow2(n) == CASE n = 0 -> 1 [] n = 1 -> 2 [] n = 2 -> 4 [] n = 3 -> 8 [] n = 4 -> 16
             [] n = 5 -> 32 [] n = 6 -> 64 [] n = 7 -> 128 [] OTHER -> 256

ByteAt(x, i) == IF i \in Bytes THEN x[i] ELSE 0

ShrByte(x, j, q, r) ==
    ((ByteAt(x, j + q) \div Pow2(r)) + ByteAt(x, j + q + 1) * Pow2(8 - r)) % 256

RECURSIVE ShrFrom(_, _, _)
ShrFrom(x, n, j) ==
    IF j > 8 THEN << >> ELSE <<ShrByte(x, j, n \div 8, n % 8)>> \o ShrFrom(x, n, j + 1)

Shr64(x, n) == ShrFrom(x, n, 1)

Word(b0, b1, b2, b3, b4, b5, b6, b7) == <<b0, b1, b2, b3, b4, b5, b6, b7>>
FromInt(n) == <<n % 256, (n \div 256) % 256, (n \div 65536) % 256, 0, 0, 0, 0, 0>>

(***************************************************************************)
(* zobrist.hpp                                                             *)
(***************************************************************************)
kSeed == Word(18, 52, 242, 225, 217, 199, 179, 165)          \* 0xA5B3C7D9E1F23412
kGolden == Word(21, 124, 74, 127, 185, 121, 55, 158)         \* 0x9E3779B97F4A7C15
kMix1 == Word(185, 229, 228, 28, 109, 71, 88, 191)           \* 0xBF58476D1CE4E5B9
kMix2 == Word(235, 17, 49, 19, 187, 73, 208, 148)            \* 0x94D049BB133111EB

\* z ^ (z >> n)
XorShift(z, n) == Xor64(z, Shr64(z, n))

splitmix64(state) ==
    XorShift(Mul64(XorShift(Mul64(XorShift(Add64(state, kGolden), 30), kMix1), 27), kMix2), 31)

nth_key(index) == splitmix64(Add64(kSeed, FromInt(index)))

kKeys == [i \in 0 .. 848 |-> nth_key(i)] @@ << >>

piece_index(pt) == pt - 1
piece_key(color, pt, sq) == kKeys[color * 384 + piece_index(pt) * 64 + sq]
side_to_move_key == kKeys[768]
castling_key(cr) == kKeys[769 + (cr % 16)]
en_passant_key(sq) == kKeys[785 + sq]

(***************************************************************************)
(* bitboard.hpp: a Bitboard is the set of squares whose bit is set         *)
(***************************************************************************)
kEmptyBB == {}

\* the squares of b in pop_lsb order (least significant bit first)
BBSeq(b) ==
    [i \in 1 .. Cardinality(b) |-> CHOOSE s \in b : Cardinality({t \in b : t < s}) = i - 1]

lsb(b) == IF b = {} THEN 64 ELSE CHOOSE s \in b : \A t \in b : s <= t

file_bb(f) == {s \in Squares : file_of(s) = f}
rank_bb(r) == {s \in Squares : rank_of(s) = r}
kFileA == file_bb(0)
kFileB == file_bb(1)
kFileG == file_bb(6)
kFileH == file_bb(7)
kRank1 == rank_bb(0)
kRank3 == rank_bb(2)
kRank6 == rank_bb(5)
kRank8 == rank_bb(7)

\* b << n and b >> n on 64 bits
Shl(b, n) == {s + n : s \in {t \in b : t + n <= 63}}
Shr(b, n) == {s - n : s \in {t \in b : t - n >= 0}}

shift_north(b) == Shl(b, 8)
shift_south(b) == Shr(b, 8)
shift_east(b) == Shl(b, 1) \ kFileA
shift_west(b) == Shr(b, 1) \ kFileH
shift_ne(b) == Shl(b, 9) \ kFileA
shift_nw(b) == Shl(b, 7) \ kFileH
shift_se(b) == Shr(b, 7) \ kFileA
shift_sw(b) == Shr(b, 9) \ kFileH

compute_knight_attacks(sq) ==
    LET bb == {sq}
    IN  (Shl(bb, 17) \ kFileA) \cup (Shl(bb, 15) \ kFileH)
        \cup (Shl(bb, 10) \ (kFileA \cup kFileB)) \cup (Shl(bb, 6) \ (kFileG \cup kFileH))
        \cup (Shr(bb, 6) \ (kFileA \cup kFileB)) \cup (Shr(bb, 10) \ (kFileG \cup kFileH))
        \cup (Shr(bb, 15) \ kFileA) \cup (Shr(bb, 17) \ kFileH)

compute_king_attacks(sq) ==
    LET bb == {sq}
    IN  shift_north(bb) \cup shift_south(bb) \cup shift_east(bb) \cup shift_west(bb)
        \cup shift_ne(bb) \cup shift_nw(bb) \cup shift_se(bb) \cup shift_sw(bb)

compute_pawn_attacks(c, sq) ==
    IF c = White THEN shift_ne({sq}) \cup shift_nw({sq})
    ELSE shift_se({sq}) \cup shift_sw({sq})

kKnightAttacksData == [sq \in Squares |-> compute_knight_attacks(sq)] @@ << >>
kKingAttacksData == [sq \in Squares |-> compute_king_attacks(sq)] @@ << >>
kPawnAttacksData ==
    [c \in 0 .. 1 |-> ([sq \in Squares |-> compute_pawn_attacks(c, sq)] @@ << >>)] @@ << >>

knight_attacks(sq) == kKnightAttacksData[sq]
king_attacks(sq) == kKingAttacksData[sq]
pawn_attacks(c, sq) == kPawnAttacksData[c][sq]

(***************************************************************************)
(* magic.cpp: slider attacks.  A lookup returns the ray-traced attack set  *)
(* of the occupancy restricted to the square's relevant-occupancy mask.    *)
(***************************************************************************)
OnBoard(f, r) == f >= 0 /\ f <= 7 /\ r >= 0 /\ r <= 7

RECURSIVE ray_walk(_, _, _, _, _)
ray_walk(f, r, occupancy, df, dr) ==
    IF ~OnBoard(f, r) THEN {}
    ELSE LET s == make_square(f, r)
         IN  IF s \in occupancy THEN {s}
             ELSE {s} \cup ray_walk(f + df, r + dr, occupancy, df, dr)

ray_attacks(sq, occupancy, df, dr) ==
    ray_walk(file_of(sq) + df, rank_of(sq) + dr, occupancy, df, dr)

bishop_attacks_slow(sq, occupancy) ==
    ray_attacks(sq, occupancy, 1, 1) \cup ray_attacks(sq, occupancy, 1, -1)
    \cup ray_attacks(sq, occupancy, -1, 1) \cup ray_attacks(sq, occupancy, -1, -1)

rook_attacks_slow(sq, occupancy) ==
    ray_attacks(sq, occupancy, 1, 0) \cup ray_attacks(sq, occupancy, -1, 0)
    \cup ray_attacks(sq, occupancy, 0, 1) \cup ray_attacks(sq, occupancy, 0, -1)

RECURSIVE mask_walk(_, _, _, _)
mask_walk(f, r, df, dr) ==
    IF f > 0 /\ f < 7 /\ r > 0 /\ r < 7
    THEN {make_square(f, r)} \cup mask_walk(f + df, r + dr, df, dr)
    ELSE {}

bishop_mask(sq) ==
    LET f0 == file_of(sq)
        r0 == rank_of(sq)
    IN  mask_walk(f0 + 1, r0 + 1, 1, 1) \cup mask_walk(f0 + 1, r0 - 1, 1, -1)
        \cup mask_walk(f0 - 1, r0 + 1, -1, 1) \cup mask_walk(f0 - 1, r0 - 1, -1, -1)

rook_mask(sq) ==
    LET f0 == file_of(sq)
        r0 == rank_of(sq)
    IN  {make_square(f, r0) : f \in {g \in 1 .. 6 : g > f0}}
        \cup {make_square(f, r0) : f \in {g \in 1 .. 6 : g < f0}}
        \cup {make_square(f0, r) : r \in {q \in 1 .. 6 : q > r0}}
        \cup {make_square(f0, r) : r \in {q \in 1 .. 6 : q < r0}}

g_bishop_mask == [sq \in Squares |-> bishop_mask(sq)] @@ << >>
g_rook_mask == [sq \in Squares |-> rook_mask(sq)] @@ << >>

bishop_attacks(sq, occupancy) == bishop_attacks_slow(sq, occupancy \cap g_bishop_mask[sq])
rook_attacks(sq, occupancy) == rook_attacks_slow(sq, occupancy \cap g_rook_mask[sq])
queen_attacks(sq, occupancy) == bishop_attacks(sq, occupancy) \cup rook_attacks(sq, occupancy)

(***************************************************************************)
(* board.hpp: twelve piece bitboards, two colour aggregates, the           *)
(* all-occupancy and the 64-slot mailbox.  The field `bad` records that    *)
(* an operation was called outside its documented precondition.            *)
(***************************************************************************)
EmptyBoard ==
    [pieces_ |-> [c \in 0 .. 1 |-> [t \in 1 .. 6 |-> {}]],
     occupied_ |-> [c \in 0 .. 1 |-> {}],
     occupied_all_ |-> {},
     mailbox_ |-> [sq \in Squares |-> kNoPiece],
     bad |-> FALSE]

piece_at(b, sq) == b.mailbox_[sq]
is_empty(b, sq) == b.mailbox_[sq].type = PT_None
pieces(b, c, pt) == b.pieces_[c][pt]
occupied(b, c) == b.occupied_[c]
occupied_all(b) == b.occupied_all_
king_square(b, c) == lsb(pieces(b, c, King))

put_piece(b, sq, p) ==
    IF p.type = PT_None THEN [b EXCEPT !.bad = TRUE]
    ELSE [b EXCEPT !.pieces_[p.color][p.type] = @ \cup {sq},
                   !.occupied_[p.color] = @ \cup {sq},
                   !.occupied_all_ = @ \cup {sq},
                   !.mailbox_[sq] = p,
                   !.bad = @ \/ (b.mailbox_[sq] # kNoPiece)]

\* a removal that clears the mailbox slot only
remove_piece_mailbox_only(b, sq) == [b EXCEPT !.mailbox_[sq] = kNoPiece]

remove_piece(b, sq) ==
    LET p == b.mailbox_[sq]
    IN  IF p.type = PT_None THEN [b EXCEPT !.bad = TRUE]
        ELSE [b EXCEPT !.pieces_[p.color][p.type] = @ \ {sq},
                       !.occupied_[p.color] = @ \ {sq},
                       !.occupied_all_ = @ \ {sq},
                       !.mailbox_[sq] = kNoPiece]

(***************************************************************************)
(* position.hpp / position.cpp: the Position object                        *)
(***************************************************************************)
\* a mask that clears rights on the kings' home squares only
castling_mask_for_kings(sq) ==
    CASE sq = E1 -> kCastlingAll - kWhiteBoth
      [] sq = E8 -> kCastlingAll - kBlackBoth
      [] OTHER -> kCastlingAll

castling_mask_for(sq) ==
    CASE sq = A1 -> kCastlingAll - kWhiteQueenside
      [] sq = H1 -> kCastlingAll - kWhiteKingside
      [] sq = E1 -> kCastlingAll - kWhiteBoth
      [] sq = A8 -> kCastlingAll - kBlackQueenside
      [] sq = H8 -> kCastlingAll - kBlackKingside
      [] sq = E8 -> kCastlingAll - kBlackBoth
      [] OTHER -> kCastlingAll

kCastleMask == [sq \in Squares |-> castling_mask_for(sq)] @@ << >>

UndoInfo(cr, ep, hm, cap, k) ==
    [castling |-> cr, en_passant |-> ep, halfmove_clock |-> hm, captured |-> cap, key |-> k]

\* the XOR of the piece keys of the occupied squares lo .. hi (the loop over the mailbox;
\* XOR is associative and commutative, the range is halved to keep the evaluation shallow)
RECURSIVE xor_pieces(_, _, _)
xor_pieces(b, lo, hi) ==
    IF lo = hi
    THEN LET p == piece_at(b, lo)
         IN  IF p # kNoPiece THEN piece_key(p.color, p.type, lo) ELSE Zero64
    ELSE LET mid == (lo + hi) \div 2
         IN  Xor64(xor_pieces(b, lo, mid), xor_pieces(b, mid + 1, hi))

compute_key(p) ==
    LET k1 == Xor64(Zero64, castling_key(p.castling_))
        k2 == IF p.side_to_move_ = Black THEN Xor64(k1, side_to_move_key) ELSE k1
        k3 == IF p.en_passant_ # kNoSquare THEN Xor64(k2, en_passant_key(p.en_passant_)) ELSE k2
        k4 == Xor64(k3, xor_pieces(p.board_, 0, 63))
    IN  [p EXCEPT !.key_ = k4, !.key_history_ = <<k4>>]

Position(board, side, castling, ep, halfmove, fullmove) ==
    compute_key([board_ |-> board,
                 side_to_move_ |-> side,
                 castling_ |-> castling,
                 en_passant_ |-> ep,
                 halfmove_clock_ |-> halfmove,
                 fullmove_number_ |-> fullmove,
                 key_ |-> Zero64,
                 history_ |-> << >>,
                 key_history_ |-> << >>])

toggle_piece_hash(p, pc, sq) ==
    IF pc.type = PT_None THEN [p EXCEPT !.board_.bad = TRUE]
    ELSE [p EXCEPT !.key_ = Xor64(@, piece_key(pc.color, pc.type, sq))]

toggle_side_hash(p) == [p EXCEPT !.key_ = Xor64(@, side_to_move_key)]

set_castling(p, cr) ==
    IF cr = p.castling_ THEN p
    ELSE [p EXCEPT !.key_ = Xor64(Xor64(@, castling_key(p.castling_)), castling_key(cr)),
                   !.castling_ = cr]

\* the en passant square replaced without touching the key
set_en_passant_unhashed(p, ep) == [p EXCEPT !.en_passant_ = ep]

\* key ^ en_passant_key(sq) when sq is a square, the key unchanged otherwise
toggle_en_passant_key(key, sq) ==
    IF sq # kNoSquare THEN Xor64(key, en_passant_key(sq)) ELSE key

set_en_passant(p, ep) ==
    IF ep = p.en_passant_ THEN p
    ELSE [p EXCEPT !.key_ = toggle_en_passant_key(toggle_en_passant_key(@, p.en_passant_), ep),
                   !.en_passant_ = ep]

\* the castling rook slide of make_move: from rook_from to rook_to, hash toggled
slide_rook(p, rook_from, rook_to) ==
    toggle_piece_hash(
        [toggle_piece_hash(p, piece_at(p.board_, rook_from), rook_from) EXCEPT
             !.board_ = put_piece(remove_piece(@, rook_from), rook_to,
                                  piece_at(p.board_, rook_from))],
        piece_at(p.board_, rook_from), rook_to)

(* make_move, statement by statement.  In each step q is the position as   *)
(* the statements before it left it and p the position make_move was       *)
(* called on.                                                              *)
moving_piece(p, m) == piece_at(p.board_, m.from_sq)

capture_sq(m) ==
    IF m.flag = EnPassant THEN make_square(file_of(m.to_sq), rank_of(m.from_sq)) ELSE m.to_sq

captured_piece(p, m) == piece_at(p.board_, capture_sq(m))

placed_piece(p, m) ==
    IF m.flag = Promotion /\ m.promotion # PT_None
    THEN Piece(moving_piece(p, m).color, m.promotion) ELSE moving_piece(p, m)

push_undo(p, m) ==
    [p EXCEPT !.history_ = Append(@, UndoInfo(p.castling_, p.en_passant_, p.halfmove_clock_,
                                              captured_piece(p, m), p.key_))]

lift_piece(q, p, m) ==
    [toggle_piece_hash(q, moving_piece(p, m), m.from_sq) EXCEPT
         !.board_ = remove_piece(@, m.from_sq)]

remove_captured(q, p, m) ==
    IF captured_piece(p, m) # kNoPiece
    THEN [toggle_piece_hash(q, captured_piece(p, m), capture_sq(m)) EXCEPT
              !.board_ = remove_piece(@, capture_sq(m))]
    ELSE q

place_piece(q, p, m) ==
    toggle_piece_hash([q EXCEPT !.board_ = put_piece(@, m.to_sq, placed_piece(p, m))],
                      placed_piece(p, m), m.to_sq)

castle_rook(q, m) ==
    IF m.flag \in {CastleKingside, CastleQueenside}
    THEN slide_rook(q,
                    make_square(IF m.flag = CastleKingside THEN 7 ELSE 0, rank_of(m.from_sq)),
                    make_square(IF m.flag = CastleKingside THEN 5 ELSE 3, rank_of(m.from_sq)))
    ELSE q

update_en_passant(q, m) ==
    set_en_passant(q, IF m.flag = DoublePawn
                      THEN make_square(file_of(m.from_sq),
                                       (rank_of(m.from_sq) + rank_of(m.to_sq)) \div 2)
                      ELSE kNoSquare)

\* an update that masks with the square the move starts from only
update_castling_from(q, m) ==
    set_castling(q, CastlingAnd(q.castling_, kCastleMask[m.from_sq]))

update_castling(q, m) ==
    set_castling(q, CastlingAnd(CastlingAnd(q.castling_, kCastleMask[m.from_sq]),
                                kCastleMask[m.to_sq]))

update_clocks(q, p, m) ==
    [q EXCEPT !.halfmove_clock_ =
                  IF moving_piece(p, m).type = Pawn \/ captured_piece(p, m) # kNoPiece
                  THEN 0 ELSE @ + 1,
              !.fullmove_number_ = IF p.side_to_move_ = Black THEN @ + 1 ELSE @]

flip_side(q) == toggle_side_hash([q EXCEPT !.side_to_move_ = opposite(@)])

\* a push of the key the history ends with, not of the key after the move
push_key_stale(q) == [q EXCEPT !.key_history_ = Append(@, @[Len(@)])]

push_key(q) == [q EXCEPT !.key_history_ = Append(@, q.key_)]

make_move(p, m) ==
    push_key(flip_side(update_clocks(update_castling(update_en_passant(castle_rook(
        place_piece(remove_captured(lift_piece(push_undo(p, m), p, m), p, m), p, m),
        m), m), m), p, m)))

\* unmake_move leaving the castling rook where the move put it
unslide_rook_left(b, rook_at, rook_home) == b

\* the castling rook slide of unmake_move: no hashing, the key comes from the undo record
unslide_rook(b, rook_at, rook_home) ==
    LET rook == piece_at(b, rook_at)
    IN  put_piece(remove_piece(b, rook_at), rook_home, rook)

unmake_move(p, m) ==
    LET undo == p.history_[Len(p.history_)]
        side == opposite(p.side_to_move_)
        placed == piece_at(p.board_, m.to_sq)
        original == IF m.flag = Promotion THEN Piece(placed.color, Pawn) ELSE placed
        b1 == put_piece(remove_piece(p.board_, m.to_sq), m.from_sq, original)
        b2 == IF undo.captured # kNoPiece
              THEN IF m.flag = EnPassant
                   THEN put_piece(b1, make_square(file_of(m.to_sq), rank_of(m.from_sq)),
                                  undo.captured)
                   ELSE put_piece(b1, m.to_sq, undo.captured)
              ELSE b1
        r == rank_of(m.from_sq)
        b3 == IF m.flag = CastleKingside THEN unslide_rook(b2, make_square(5, r), make_square(7, r))
              ELSE IF m.flag = CastleQueenside
                   THEN unslide_rook(b2, make_square(3, r), make_square(0, r))
                   ELSE b2
    IN  [board_ |-> b3,
         side_to_move_ |-> side,
         castling_ |-> undo.castling,
         en_passant_ |-> undo.en_passant,
         halfmove_clock_ |-> undo.halfmove_clock,
         fullmove_number_ |-> IF side = Black THEN p.fullmove_number_ - 1
                              ELSE p.fullmove_number_,
         key_ |-> undo.key,
         history_ |-> SubSeq(p.history_, 1, Len(p.history_) - 1),
         key_history_ |-> SubSeq(p.key_history_, 1, Len(p.key_history_) - 1)]

is_square_attacked(p, sq, by) ==
    LET b == p.board_
        occ == occupied_all(b)
    IN  \/ pawn_attacks(opposite(by), sq) \cap pieces(b, by, Pawn) # {}
        \/ knight_attacks(sq) \cap pieces(b, by, Knight) # {}
        \/ king_attacks(sq) \cap pieces(b, by, King) # {}
        \/ bishop_attacks(sq, occ) \cap (pieces(b, by, Bishop) \cup pieces(b, by, Queen)) # {}
        \/ rook_attacks(sq, occ) \cap (pieces(b, by, Rook) \cup pieces(b, by, Queen)) # {}

\* a check test that asks whether the king's own side attacks it
is_in_check_own_side(p, c) == is_square_attacked(p, king_square(p.board_, c), c)

is_in_check(p, c) == is_square_attacked(p, king_square(p.board_, c), opposite(c))

\* a count of the occurrences before the current one only
repetition_count_previous(p) ==
    Cardinality({i \in 1 .. Len(p.key_history_) - 1 : p.key_history_[i] = p.key_})

repetition_count(p) ==
    Cardinality({i \in 1 .. Len(p.key_history_) : p.key_history_[i] = p.key_})

(***************************************************************************)
(* movegen.cpp: a MoveList is the sequence of the moves pushed             *)
(***************************************************************************)
kPromotions == <<Queen, Rook, Bishop, Knight>>

add_promotions(from, to) == [i \in 1 .. 4 |-> Move(from, to, Promotion, kPromotions[i])]

\* one plain push per target square, in pop_lsb order; `back` maps a target to its origin
PushEach(targets, back, us, flag) ==
    LET ts == BBSeq(targets)
    IN  [i \in 1 .. Len(ts) |->
            Move(IF us = White THEN ts[i] - back[1] ELSE ts[i] + back[2], ts[i], flag, PT_None)]

\* four promotion pushes per target square, in pop_lsb order
PromoteEach(targets, back, us) ==
    LET ts == BBSeq(targets)
    IN  [i \in 1 .. 4 * Len(ts) |->
            LET to == ts[((i - 1) \div 4) + 1]
            IN  add_promotions(IF us = White THEN to - back[1] ELSE to + back[2],
                               to)[((i - 1) % 4) + 1]]

EnPassantMoves(p, us, pawns) ==
    IF p.en_passant_ # kNoSquare
    THEN LET ep == p.en_passant_
             froms == BBSeq(pawn_attacks(opposite(us), ep) \cap pawns)
         IN  [i \in 1 .. Len(froms) |-> Move(froms[i], ep, EnPassant, PT_None)]
    ELSE << >>

gen_pawn_moves(p) ==
    LET us == p.side_to_move_
        them == opposite(us)
        board == p.board_
        pawns == pieces(board, us, Pawn)
        empty == Squares \ occupied_all(board)
        enemy == occupied(board, them)
        promo_rank == IF us = White THEN kRank8 ELSE kRank1
        single == IF us = White THEN shift_north(pawns) \cap empty
                  ELSE shift_south(pawns) \cap empty
        mid_rank == IF us = White THEN kRank3 ELSE kRank6
        dbl == IF us = White THEN shift_north(single \cap mid_rank) \cap empty
               ELSE shift_south(single \cap mid_rank) \cap empty
        cap_l == (IF us = White THEN shift_nw(pawns) ELSE shift_sw(pawns)) \cap enemy
        cap_r == (IF us = White THEN shift_ne(pawns) ELSE shift_se(pawns)) \cap enemy
    IN  PushEach(single \ promo_rank, <<8, 8>>, us, Normal)
        \o PromoteEach(single \cap promo_rank, <<8, 8>>, us)
        \o PushEach(dbl, <<16, 16>>, us, DoublePawn)
        \o PushEach(cap_l \ promo_rank, <<7, 9>>, us, Normal)
        \o PromoteEach(cap_l \cap promo_rank, <<7, 9>>, us)
        \o PushEach(cap_r \ promo_rank, <<9, 7>>, us, Normal)
        \o PromoteEach(cap_r \cap promo_rank, <<9, 7>>, us)
        \o EnPassantMoves(p, us, pawns)

piece_attacks(pt, from, occ) ==
    CASE pt = Knight -> knight_attacks(from)
      [] pt = Bishop -> bishop_attacks(from, occ)
      [] pt = Rook -> rook_attacks(from, occ)
      [] pt = Queen -> queen_attacks(from, occ)
      [] pt = King -> king_attacks(from)
      [] OTHER -> kEmptyBB

\* the moves of every piece in `froms` (pop_lsb order) onto the squares of `allowed`
push_targets(from, tos) == [i \in 1 .. Len(tos) |-> Move(from, tos[i], Normal, PT_None)]

RECURSIVE piece_loop(_, _, _, _)
piece_loop(froms, pt, occ, allowed) ==
    IF froms = << >> THEN << >>
    ELSE push_targets(Head(froms), BBSeq(piece_attacks(pt, Head(froms), occ) \cap allowed))
         \o piece_loop(Tail(froms), pt, occ, allowed)

gen_piece_moves(p, pt) ==
    LET us == p.side_to_move_
        board == p.board_
    IN  piece_loop(BBSeq(pieces(board, us, pt)), pt, occupied_all(board),
                   Squares \ occupied(board, us))

\* gen_piece_moves for each piece type of pts, in order
RECURSIVE gen_pieces(_, _)
gen_pieces(p, pts) ==
    IF pts = << >> THEN << >>
    ELSE gen_piece_moves(p, Head(pts)) \o gen_pieces(p, Tail(pts))

\* one side of gen_castling without the test of the squares the king crosses
castle_side_unchecked(p, right, between, crossed, m) ==
    IF /\ HasRight(p.castling_, right)
       /\ \A sq \in between : is_empty(p.board_, sq)
    THEN <<m>> ELSE << >>

\* one side of gen_castling: the right is held, the squares between are empty and the
\* squares the king crosses are not attacked
castle_side(p, right, between, crossed, m) ==
    IF /\ HasRight(p.castling_, right)
       /\ \A sq \in between : is_empty(p.board_, sq)
       /\ \A sq \in crossed : ~is_square_attacked(p, sq, opposite(p.side_to_move_))
    THEN <<m>> ELSE << >>

gen_castling(p) ==
    LET us == p.side_to_move_
        them == opposite(us)
        board == p.board_
        king_sq == king_square(board, us)
        rank == IF us = White THEN 0 ELSE 7
        ks == IF us = White THEN kWhiteKingside ELSE kBlackKingside
        qs == IF us = White THEN kWhiteQueenside ELSE kBlackQueenside
        f_sq == make_square(5, rank)
        g_sq == make_square(6, rank)
        b_sq == make_square(1, rank)
        c_sq == make_square(2, rank)
        d_sq == make_square(3, rank)
    IN  IF is_square_attacked(p, king_sq, them) THEN << >>
        ELSE castle_side(p, ks, {f_sq, g_sq}, {f_sq, g_sq},
                         Move(king_sq, g_sq, CastleKingside, PT_None))
             \o castle_side(p, qs, {b_sq, c_sq, d_sq}, {c_sq, d_sq},
                            Move(king_sq, c_sq, CastleQueenside, PT_None))

\* captures and promotions of one target set: promotions on the last rank, else a plain push
CaptureEach(targets, back, us, promo_rank) ==
    LET ts == BBSeq(targets)
        one(to) == LET from == IF us = White THEN to - back[1] ELSE to + back[2]
                   IN  IF to \in promo_rank THEN add_promotions(from, to)
                       ELSE <<Move(from, to, Normal, PT_None)>>
        F[i \in 0 .. Len(ts)] == IF i = 0 THEN << >> ELSE F[i - 1] \o one(ts[i])
    IN  F[Len(ts)]

gen_pawn_captures(p) ==
    LET us == p.side_to_move_
        them == opposite(us)
        board == p.board_
        pawns == pieces(board, us, Pawn)
        empty == Squares \ occupied_all(board)
        enemy == occupied(board, them)
        promo_rank == IF us = White THEN kRank8 ELSE kRank1
        cap_l == (IF us = White THEN shift_nw(pawns) ELSE shift_sw(pawns)) \cap enemy
        cap_r == (IF us = White THEN shift_ne(pawns) ELSE shift_se(pawns)) \cap enemy
        single == IF us = White THEN shift_north(pawns) \cap empty
                  ELSE shift_south(pawns) \cap empty
    IN  CaptureEach(cap_l, <<7, 9>>, us, promo_rank)
        \o CaptureEach(cap_r, <<9, 7>>, us, promo_rank)
        \o PromoteEach(single \cap promo_rank, <<8, 8>>, us)
        \o EnPassantMoves(p, us, pawns)

pseudo_legal(p) ==
    gen_pawn_moves(p) \o gen_pieces(p, <<Knight, Bishop, Rook, Queen, King>>) \o gen_castling(p)

\* one iteration of the loop of legal() on q, the position after make_move(m)
legal_step(q, m, us) ==
    [moves |-> IF ~is_in_check(q, us) THEN <<m>> ELSE << >>, pos |-> unmake_move(q, m)]

\* the iterations lo .. hi of the loop of legal(), in order: the position is threaded
\* through every make_move / unmake_move
RECURSIVE legal_loop(_, _, _, _, _)
legal_loop(p, pseudo, us, lo, hi) ==
    IF lo > hi THEN [moves |-> << >>, pos |-> p]
    ELSE IF lo = hi
    THEN legal_step(make_move(p, pseudo[lo]), pseudo[lo], us)
    ELSE LET mid == (lo + hi) \div 2
             left == legal_loop(p, pseudo, us, lo, mid)
             right == legal_loop(left.pos, pseudo, us, mid + 1, hi)
         IN  [moves |-> left.moves \o right.moves, pos |-> right.pos]

\* the loop of legal() over the whole list
legal_filter(p, pseudo) == legal_loop(p, pseudo, p.side_to_move_, 1, Len(pseudo))

legal_run(p) == legal_filter(p, pseudo_legal(p))

legal(p) == legal_run(p).moves

\* the capturing moves of each piece type of pts, in order
RECURSIVE capture_pieces(_, _)
capture_pieces(p, pts) ==
    IF pts = << >> THEN << >>
    ELSE piece_loop(BBSeq(pieces(p.board_, p.side_to_move_, Head(pts))), Head(pts),
                    occupied_all(p.board_), occupied(p.board_, opposite(p.side_to_move_)))
         \o capture_pieces(p, Tail(pts))

captures(p) ==
    gen_pawn_captures(p) \o capture_pieces(p, <<Knight, Bishop, Rook, Queen, King>>)

RECURSIVE perft(_, _)
perft(p, depth) ==
    IF depth = 0 THEN 1
    ELSE LET moves == legal(p)
             F[i \in 0 .. Len(moves)] ==
                 IF i = 0 THEN 0 ELSE F[i - 1] + perft(make_move(p, moves[i]), depth - 1)
         IN  IF depth = 1 THEN Len(moves) ELSE F[Len(moves)]

(***************************************************************************)
(* Position::from_fen, piece placement field (a FEN is a sequence of       *)
(* one-character strings), and the positions the runs start from           *)
(***************************************************************************)
from_fen_char(ch) ==
    CASE ch = "P" -> Piece(White, Pawn)   [] ch = "N" -> Piece(White, Knight)
      [] ch = "B" -> Piece(White, Bishop) [] ch = "R" -> Piece(White, Rook)
      [] ch = "Q" -> Piece(White, Queen)  [] ch = "K" -> Piece(White, King)
      [] ch = "p" -> Piece(Black, Pawn)   [] ch = "n" -> Piece(Black, Knight)
      [] ch = "b" -> Piece(Black, Bishop) [] ch = "r" -> Piece(Black, Rook)
      [] ch = "q" -> Piece(Black, Queen)  [] ch = "k" -> Piece(Black, King)
      [] OTHER -> Piece(White, PT_None)

DigitOf(ch) ==
    CASE ch = "1" -> 1 [] ch = "2" -> 2 [] ch = "3" -> 3 [] ch = "4" -> 4
      [] ch = "5" -> 5 [] ch = "6" -> 6 [] ch = "7" -> 7 [] ch = "8" -> 8
      [] OTHER -> 0

\* one iteration of the placement loop of from_fen; ok is FALSE where the code throws
place_step(st, ch) ==
    IF ~st.ok THEN st
    ELSE IF ch = "/"
         THEN IF st.file # 8 \/ st.rank - 1 < 0 THEN [st EXCEPT !.ok = FALSE]
              ELSE [st EXCEPT !.rank = @ - 1, !.file = 0]
         ELSE IF DigitOf(ch) # 0
              THEN IF st.file + DigitOf(ch) > 8 THEN [st EXCEPT !.ok = FALSE]
                   ELSE [st EXCEPT !.file = @ + DigitOf(ch)]
              ELSE IF st.file >= 8 \/ from_fen_char(ch).type = PT_None
                   THEN [st EXCEPT !.ok = FALSE]
                   ELSE [st EXCEPT !.board = put_piece(@, make_square(st.file, st.rank),
                                                       from_fen_char(ch)),
                                   !.file = @ + 1]

\* the iterations lo .. hi of the placement loop, in order
RECURSIVE place_range(_, _, _, _)
place_range(st, placement, lo, hi) ==
    IF lo > hi THEN st
    ELSE IF lo = hi THEN place_step(st, placement[lo])
    ELSE LET mid == (lo + hi) \div 2
             left == place_range(st, placement, lo, mid)
         IN  IF ~left.ok THEN left ELSE place_range(left, placement, mid + 1, hi)

place_loop(placement, board, rank, file) ==
    LET st == place_range([ok |-> TRUE, board |-> board, rank |-> rank, file |-> file],
                          placement, 1, Len(placement))
    IN  [ok |-> st.ok /\ st.rank = 0 /\ st.file = 8, board |-> st.board]

CastlingChars == {"K", "Q", "k", "q"}

castling_bit(ch) ==
    CASE ch = "K" -> kWhiteKingside [] ch = "Q" -> kWhiteQueenside
      [] ch = "k" -> kBlackKingside [] ch = "q" -> kBlackQueenside
      [] OTHER -> 0

\* castling |= bit for every character of the field
parse_castling(field) ==
    LET bits == {castling_bit(field[i]) : i \in 1 .. Len(field)}
        has(b) == IF b \in bits THEN b ELSE 0
    IN  has(kWhiteKingside) + has(kWhiteQueenside) + has(kBlackKingside) + has(kBlackQueenside)

FileChars == <<"a", "b", "c", "d", "e", "f", "g", "h">>
RankChars == <<"1", "2", "3", "4", "5", "6", "7", "8">>
IndexOf(chars, ch) == IF \E i \in 1 .. Len(chars) : chars[i] = ch
                      THEN (CHOOSE i \in 1 .. Len(chars) : chars[i] = ch) - 1
                      ELSE -1

parse_square(name) ==
    IF Len(name) # 2 THEN kNoSquare
    ELSE LET f == IndexOf(FileChars, name[1])
             r == IndexOf(RankChars, name[2])
         IN  IF f < 0 \/ f > 7 \/ r < 0 \/ r > 7 THEN kNoSquare ELSE make_square(f, r)

DecimalChars == <<"0", "1", "2", "3", "4", "5", "6", "7", "8", "9">>
kIntMax == 2147483647

\* std::from_chars on the whole field without the lower bound
parse_int_unbounded(sv, min_val) ==
    LET neg == Len(sv) > 0 /\ sv[1] = "-"
        ds == IF neg THEN Tail(sv) ELSE sv
        F[i \in 0 .. Len(ds)] ==
            IF i = 0 THEN 0
            ELSE LET d == IndexOf(DecimalChars, ds[i])
                 IN  IF F[i - 1] < 0 \/ d < 0 \/ F[i - 1] > (kIntMax - d) \div 10 THEN -1
                     ELSE F[i - 1] * 10 + d
        mag == F[Len(ds)]
        val == IF neg THEN 0 - mag ELSE mag
    IN  IF Len(ds) = 0 \/ mag < 0 THEN [ok |-> FALSE, val |-> 0]
        ELSE [ok |-> TRUE, val |-> val]

\* std::from_chars on the whole field, then the lower bound; ok is FALSE where the code throws
parse_int(sv, min_val) ==
    LET neg == Len(sv) > 0 /\ sv[1] = "-"
        ds == IF neg THEN Tail(sv) ELSE sv
        F[i \in 0 .. Len(ds)] ==
            IF i = 0 THEN 0
            ELSE LET d == IndexOf(DecimalChars, ds[i])
                 IN  IF F[i - 1] < 0 \/ d < 0 \/ F[i - 1] > (kIntMax - d) \div 10 THEN -1
                     ELSE F[i - 1] * 10 + d
        mag == F[Len(ds)]
        val == IF neg THEN 0 - mag ELSE mag
    IN  IF Len(ds) = 0 \/ mag < 0 \/ val < min_val THEN [ok |-> FALSE, val |-> 0]
        ELSE [ok |-> TRUE, val |-> val]

\* from_fen on the fields split_spaces returns; ok is FALSE where the code throws
from_fen(parts) ==
    LET bad == [ok |-> FALSE, pos |-> Position(EmptyBoard, White, kCastlingNone, kNoSquare, 0, 1)]
        placed == place_loop(parts[1], EmptyBoard, 7, 0)
        side == IF parts[2] = <<"w">> THEN White ELSE Black
        castling == IF parts[3] = <<"-">> THEN kCastlingNone ELSE parse_castling(parts[3])
        ep == IF parts[4] = <<"-">> THEN kNoSquare ELSE parse_square(parts[4])
        halfmove == IF Len(parts) > 4 THEN parse_int(parts[5], 0) ELSE [ok |-> TRUE, val |-> 0]
        fullmove == IF Len(parts) > 5 THEN parse_int(parts[6], 1) ELSE [ok |-> TRUE, val |-> 1]
    IN  IF Len(parts) < 4 \/ Len(parts) > 6 THEN bad
        ELSE IF ~placed.ok THEN bad
        ELSE IF parts[2] # <<"w">> /\ parts[2] # <<"b">> THEN bad
        ELSE IF parts[3] # <<"-">> /\ \E i \in 1 .. Len(parts[3]) : parts[3][i] \notin CastlingChars
             THEN bad
        ELSE IF parts[4] # <<"-">> /\ ep = kNoSquare THEN bad
        ELSE IF ~halfmove.ok \/ ~fullmove.ok THEN bad
        ELSE [ok |-> TRUE,
              pos |-> Position(placed.board, side, castling, ep, halfmove.val, fullmove.val)]

\* position.hpp: the standard starting position
kStartingFen ==
    <<<<"r", "n", "b", "q", "k", "b", "n", "r", "/", "p", "p", "p", "p", "p", "p", "p", "p", "/", "8", "/", "8", "/", "8", "/", "8", "/", "P", "P", "P", "P", "P", "P", "P", "P", "/", "R", "N", "B", "Q", "K", "B", "N", "R">>, <<"w">>, <<"K", "Q", "k", "q">>, <<"-">>, <<"0">>, <<"1">>>>

\* test_movegen: Kiwipete
kKiwipeteFen ==
    <<<<"r", "3", "k", "2", "r", "/", "p", "1", "p", "p", "q", "p", "b", "1", "/", "b", "n", "2", "p", "n", "p", "1", "/", "3", "P", "N", "3", "/", "1", "p", "2", "P", "3", "/", "2", "N", "2", "Q", "1", "p", "/", "P", "P", "P", "B", "B", "P", "P", "P", "/", "R", "3", "K", "2", "R">>, <<"w">>, <<"K", "Q", "k", "q">>, <<"-">>, <<"0">>, <<"1">>>>

\* test_position: en passant available
kEnPassantFen ==
    <<<<"8", "/", "8", "/", "8", "/", "3", "p", "P", "3", "/", "8", "/", "8", "/", "8", "/", "4", "K", "2", "k">>, <<"w">>, <<"-">>, <<"d", "6">>, <<"0">>, <<"1">>>>

\* test_position: promotion with capture
kPromotionCaptureFen ==
    <<<<"1", "r", "6", "/", "P", "7", "/", "8", "/", "8", "/", "8", "/", "8", "/", "6", "k", "1", "/", "4", "K", "3">>, <<"w">>, <<"-">>, <<"-">>, <<"0">>, <<"1">>>>

\* test_movegen: pinned knight
kPinFen ==
    <<<<"4", "r", "1", "k", "1", "/", "8", "/", "8", "/", "8", "/", "8", "/", "8", "/", "4", "N", "3", "/", "4", "K", "3">>, <<"w">>, <<"-">>, <<"-">>, <<"0">>, <<"1">>>>

\* test_movegen: rook check on the back rank
kCheckEvasionFen ==
    <<<<"4", "k", "3", "/", "8", "/", "8", "/", "8", "/", "8", "/", "8", "/", "8", "/", "R", "3", "K", "2", "r">>, <<"w">>, <<"Q">>, <<"-">>, <<"0">>, <<"1">>>>

RootFens ==
    {kStartingFen, kKiwipeteFen, kEnPassantFen, kPromotionCaptureFen, kPinFen, kCheckEvasionFen}

(***************************************************************************)
(* Specification of the Position object: a caller makes legal moves and    *)
(* unmakes them in reverse order                                           *)
(***************************************************************************)
MaxPly == 2

Idle == [pc |-> "idle"]

Init ==
    /\ \E fen \in RootFens : pos = from_fen(fen).pos
    /\ made = << >>
    /\ srch = Idle
    /\ ttab = Idle /\ parse = Idle /\ magic = Idle /\ pft = Idle

MakeMove ==
    /\ Len(made) < MaxPly
    /\ \E run \in {legal_run(pos)} :
           \E i \in 1 .. Len(run.moves) :
               /\ pos' = make_move(run.pos, run.moves[i])
               /\ made' = Append(made, [move |-> run.moves[i], before |-> pos])
    /\ UNCHANGED <<srch, ttab, parse, magic, pft>>

UnmakeMove ==
    /\ made # << >>
    /\ pos' = unmake_move(pos, made[Len(made)].move)
    /\ made' = SubSeq(made, 1, Len(made) - 1)
    /\ UNCHANGED <<srch, ttab, parse, magic, pft>>

Next == MakeMove \/ UnmakeMove

Spec == Init /\ [][Next]_vars

(***************************************************************************)
(* Properties of the Position object, checked under Spec                   *)
(***************************************************************************)
LastMade == made[Len(made)]

\* C1: in every position reached by legal moves, make_move followed by unmake_move of any
\* pseudo-legal move gives back the position exactly (bitboards, occupancies, mailbox, side,
\* castling, en passant, both clocks, key, undo stack and key history), and unmaking the
\* last move made gives back the position it was made in, so a sequence unmade in reverse
\* order restores every intermediate position.
MakeUnmakeRestores ==
    /\ \A pseudo \in {pseudo_legal(pos)} :
           \A i \in 1 .. Len(pseudo) : unmake_move(make_move(pos, pseudo[i]), pseudo[i]) = pos
    /\ made # << >> => unmake_move(pos, LastMade.move) = LastMade.before

\* two moves are on the stack, the last one a castling move made after a capture
MakeUnmakeReached ==
    /\ Len(made) = MaxPly
    /\ LastMade.move.flag \in {CastleKingside, CastleQueenside}
    /\ made[1].before.board_.mailbox_[made[1].move.to_sq] # kNoPiece

\* the key the claim defines from scratch: piece keys of the mailbox, castling key of the
\* mask, en passant key if a target is set, side key if Black is to move; the XOR of the
\* terms is taken bit by bit as the parity of the number of terms with that bit set
ScratchTerms(p) ==
    {<<"piece", sq>> : sq \in {t \in Squares : p.board_.mailbox_[t] # kNoPiece}}
    \cup {<<"castling", p.castling_>>}
    \cup (IF p.en_passant_ # kNoSquare THEN {<<"ep", p.en_passant_>>} ELSE {})
    \cup (IF p.side_to_move_ = Black THEN {<<"side", 0>>} ELSE {})

TermKey(p, term) ==
    CASE term[1] = "piece" -> piece_key(p.board_.mailbox_[term[2]].color,
                                        p.board_.mailbox_[term[2]].type, term[2])
      [] term[1] = "castling" -> castling_key(term[2])
      [] term[1] = "ep" -> en_passant_key(term[2])
      [] OTHER -> side_to_move_key

ScratchKey(p) ==
    LET keys == [term \in ScratchTerms(p) |-> TermKey(p, term)] @@ << >>
        parity(j, n) == Cardinality({term \in DOMAIN keys : Bit(keys[term][j], n) = 1}) % 2
    IN  [j \in Bytes |->
            parity(j, 1) + 2 * parity(j, 2) + 4 * parity(j, 4) + 8 * parity(j, 8)
            + 16 * parity(j, 16) + 32 * parity(j, 32) + 64 * parity(j, 64)
            + 128 * parity(j, 128)]

\* C2: after any sequence of make_move calls from a parsed position, the incrementally
\* maintained key equals the key computed from scratch for the current position.
KeyMatchesScratch == pos.key_ = ScratchKey(pos)

\* two moves were made: the first changed the castling rights, the second set an
\* en passant target
KeyUpdatedReached ==
    /\ Len(made) = MaxPly
    /\ pos.en_passant_ # kNoSquare
    /\ made[1].before.castling_ # made[2].before.castling_

\* C3: under legal make / unmake the board stays coherent: a piece bitboard has bit s
\* exactly when the mailbox holds that piece on s, each colour occupancy is the union of
\* that colour's piece bitboards, the all-occupancy is the union of the two, and no
\* put_piece hit an occupied square nor remove_piece an empty one.
BoardCoherent ==
    LET b == pos.board_
    IN  /\ \A c \in 0 .. 1 : \A t \in 1 .. 6 : \A sq \in Squares :
               (sq \in b.pieces_[c][t]) <=> (b.mailbox_[sq] = Piece(c, t))
        /\ \A c \in 0 .. 1 : b.occupied_[c] = UNION {b.pieces_[c][t] : t \in 1 .. 6}
        /\ b.occupied_all_ = b.occupied_[White] \cup b.occupied_[Black]
        /\ ~b.bad

\* a capture was made and then a second move: fewer pieces than before the first move
BoardCaptureReached ==
    /\ Len(made) = MaxPly
    /\ Cardinality(pos.board_.occupied_all_) < Cardinality(made[1].before.board_.occupied_all_)

\* the piece on `from` attacks `target`, read off the mailbox alone
Between(from, target) ==
    LET df == file_of(target) - file_of(from)
        dr == rank_of(target) - rank_of(from)
        n == IF df # 0 THEN (IF df < 0 THEN 0 - df ELSE df) ELSE (IF dr < 0 THEN 0 - dr ELSE dr)
        sf == IF df > 0 THEN 1 ELSE IF df < 0 THEN -1 ELSE 0
        sr == IF dr > 0 THEN 1 ELSE IF dr < 0 THEN -1 ELSE 0
    IN  {make_square(file_of(from) + k * sf, rank_of(from) + k * sr) : k \in 1 .. n - 1}

Attacks(mailbox, from, target) ==
    LET pc == mailbox[from]
        df == file_of(target) - file_of(from)
        dr == rank_of(target) - rank_of(from)
        adf == IF df < 0 THEN 0 - df ELSE df
        adr == IF dr < 0 THEN 0 - dr ELSE dr
        clear == \A sq \in Between(from, target) : mailbox[sq] = kNoPiece
    IN  /\ from # target
        /\ CASE pc.type = Pawn -> adf = 1 /\ dr = (IF pc.color = White THEN 1 ELSE -1)
             [] pc.type = Knight -> (adf = 1 /\ adr = 2) \/ (adf = 2 /\ adr = 1)
             [] pc.type = Bishop -> adf = adr /\ clear
             [] pc.type = Rook -> (adf = 0 \/ adr = 0) /\ clear
             [] pc.type = Queen -> (adf = adr \/ adf = 0 \/ adr = 0) /\ clear
             [] pc.type = King -> adf <= 1 /\ adr <= 1
             [] OTHER -> FALSE

KingAttacked(p, c) ==
    \E mailbox \in {p.board_.mailbox_} :
        \E k \in {sq \in Squares : mailbox[sq] = Piece(c, King)} :
            \E from \in {sq \in Squares : /\ mailbox[sq].type # PT_None
                                          /\ mailbox[sq].color = opposite(c)} :
                Attacks(mailbox, from, k)

\* C4: legal returns exactly the pseudo-legal moves after which the mover's own king is
\* not attacked, in generation order, and leaves the position as it found it.
LegalIsFilteredPseudoLegal ==
    \A run \in {legal_run(pos)} : \A pseudo \in {pseudo_legal(pos)} :
        \A keep \in {{i \in 1 .. Len(pseudo) :
                         ~KingAttacked(make_move(pos, pseudo[i]), pos.side_to_move_)}} :
            /\ run.pos = pos
            /\ Len(run.moves) = Cardinality(keep)
            /\ \A j \in 1 .. Len(run.moves) :
                   \E i \in keep : /\ run.moves[j] = pseudo[i]
                                   /\ Cardinality({h \in keep : h < i}) = j - 1

\* a position reached by a move in which some pseudo-legal move is filtered out
LegalFiltersReached ==
    /\ made # << >>
    /\ Len(legal(pos)) < Len(pseudo_legal(pos))
    /\ Len(legal(pos)) > 0

(***************************************************************************)
(* tt.hpp, tt.cpp: the transposition table.  table_ holds the slots that   *)
(* have been written; every other slot is a default TTEntry.               *)
(***************************************************************************)
Bound_None == 0
Exact == 1
Lower == 2
Upper == 3

TTEntry(key32, score, static_eval, best_move, depth, bound, age) ==
    [key32 |-> key32, score |-> score, static_eval |-> static_eval, best_move |-> best_move,
     depth |-> depth, bound |-> bound, age |-> age]

kDefaultEntry == TTEntry(<<0, 0, 0, 0>>, 0, 0, kNullMove, 0, Bound_None, 0)

kEntrySize == 16
kMinEntries == 1024
kDefaultSizeMB == 64

\* static_cast<std::int16_t> and static_cast<std::uint8_t>
ToInt16(x) == ((x + 32768) % 65536) - 32768
ToUint8(x) == x % 256

\* the largest power of two not above v (1 for 0): the bit smear followed by (v >> 1) + 1
RECURSIVE round_down_pow2(_)
round_down_pow2(v) == IF v <= 1 THEN 1 ELSE 2 * round_down_pow2(v \div 2)

\* resize: mb megabytes of 16-byte entries, rounded down to a power of two, at least 1024
resize(mb) ==
    LET mbs == IF mb = 0 THEN 1 ELSE mb
        rounded == round_down_pow2((mbs * 1024 * 1024) \div kEntrySize)
        num_entries == IF rounded > kMinEntries THEN rounded ELSE kMinEntries
    IN  [table_ |-> << >>, mask_ |-> num_entries - 1, age_ |-> 0]

TranspositionTable(mb) == resize(mb)

new_search(tt) == [tt EXCEPT !.age_ = ToUint8(@ + 1)]

\* key >> 32 as the four high bytes
key_upper(key) == <<key[5], key[6], key[7], key[8]>>

\* key & mask_: mask_ + 1 is a power of two of at most 2^24 (tables of up to 256 MB)
index(tt, key) == (key[1] + 256 * key[2] + 65536 * key[3]) % (tt.mask_ + 1)

slot_at(tt, idx) == IF idx \in DOMAIN tt.table_ THEN tt.table_[idx] ELSE kDefaultEntry

probe(tt, key) ==
    LET slot == slot_at(tt, index(tt, key))
    IN  IF slot.bound # Bound_None /\ slot.key32 = key_upper(key)
        THEN [hit |-> TRUE, entry |-> slot]
        ELSE [hit |-> FALSE, entry |-> kDefaultEntry]

\* store without the replacement policy
store_always(tt, key, depth, score, bound, best_move, static_eval) ==
    [tt EXCEPT !.table_ =
        (index(tt, key) :> TTEntry(key_upper(key), ToInt16(score), ToInt16(static_eval),
                                   best_move, ToUint8(depth), bound, tt.age_)) @@ @]

\* store that installs the move it is handed, null or not
store_forget_move(tt, key, depth, score, bound, best_move, static_eval) ==
    LET slot == slot_at(tt, index(tt, key))
    IN  IF \/ slot.bound = Bound_None \/ slot.age # tt.age_ \/ depth >= slot.depth
           \/ (bound = Exact /\ slot.bound # Exact)
        THEN store_always(tt, key, depth, score, bound, best_move, static_eval)
        ELSE tt

store(tt, key, depth, score, bound, best_move, static_eval) ==
    LET idx == index(tt, key)
        slot == slot_at(tt, idx)
        key32 == key_upper(key)
        should_replace == \/ slot.bound = Bound_None
                          \/ slot.age # tt.age_
                          \/ depth >= slot.depth
                          \/ (bound = Exact /\ slot.bound # Exact)
        kept_move == IF slot.key32 = key32 /\ is_null(best_move) /\ ~is_null(slot.best_move)
                     THEN slot.best_move ELSE best_move
    IN  IF ~should_replace THEN tt
        ELSE [tt EXCEPT !.table_ =
                 (idx :> TTEntry(key32, ToInt16(score), ToInt16(static_eval), kept_move,
                                 ToUint8(depth), bound, tt.age_)) @@ @]

(***************************************************************************)
(* evaluation.hpp: evaluate is declared there and defined outside the      *)
(* sources at hand; it is the material balance seen from the side to move. *)
(***************************************************************************)
kPieceValues == <<100, 320, 330, 500, 900, 0>>

material(p) ==
    LET count(c, pt) == Cardinality(pieces(p.board_, c, pt))
        side(c) == count(c, Pawn) * kPieceValues[1] + count(c, Knight) * kPieceValues[2]
                   + count(c, Bishop) * kPieceValues[3] + count(c, Rook) * kPieceValues[4]
                   + count(c, Queen) * kPieceValues[5]
    IN  side(White) - side(Black)

evaluate(p) == IF p.side_to_move_ = White THEN material(p) ELSE 0 - material(p)

(***************************************************************************)
(* The null move of the position: the side passes.                         *)
(***************************************************************************)
make_null_move(p) ==
    LET p0 == [p EXCEPT !.history_ = Append(@, UndoInfo(p.castling_, p.en_passant_,
                                                        p.halfmove_clock_, kNoPiece, p.key_))]
        p1 == set_en_passant(p0, kNoSquare)
        p2 == toggle_side_hash([p1 EXCEPT !.side_to_move_ = opposite(@)])
        p3 == [p2 EXCEPT !.halfmove_clock_ = @ + 1,
                         !.fullmove_number_ = IF p.side_to_move_ = Black THEN @ + 1 ELSE @]
    IN  [p3 EXCEPT !.key_history_ = Append(@, p3.key_)]

\* a null move taken back without popping the undo stack and the key history
unmake_null_move_no_pop(p) ==
    LET undo == p.history_[Len(p.history_)]
        side == opposite(p.side_to_move_)
    IN  [p EXCEPT !.side_to_move_ = side,
                  !.castling_ = undo.castling,
                  !.en_passant_ = undo.en_passant,
                  !.halfmove_clock_ = undo.halfmove_clock,
                  !.fullmove_number_ = IF side = Black THEN @ - 1 ELSE @,
                  !.key_ = undo.key]

unmake_null_move(p) ==
    LET undo == p.history_[Len(p.history_)]
        side == opposite(p.side_to_move_)
    IN  [p EXCEPT !.side_to_move_ = side,
                  !.castling_ = undo.castling,
                  !.en_passant_ = undo.en_passant,
                  !.halfmove_clock_ = undo.halfmove_clock,
                  !.fullmove_number_ = IF side = Black THEN @ - 1 ELSE @,
                  !.key_ = undo.key,
                  !.history_ = SubSeq(@, 1, Len(@) - 1),
                  !.key_history_ = SubSeq(@, 1, Len(@) - 1)]

(***************************************************************************)
(* search.hpp, search.cpp: constants and helpers.  A Search is a record    *)
(* of the members of the class; killers_ and history_ hold the entries     *)
(* that have been written, every other entry is zero.                      *)
(***************************************************************************)
kInfScore == 1000000
kMateScore == 100000
kMaxPly == 128

kNullMoveMinDepth == 3
kNullMoveBaseReduction == 2
kLmrMinDepth == 4
kLmrMinMoveIndex == 3
kQuiescenceMaxDepth == 16
kFutilityMargin == 200
kReverseFutilityMargin == 300
kKillerPrimaryBonus == 9000
kKillerSecondaryBonus == 8000
kHistoryMax == 8000
kTimeCheckInterval == 4096
kMvvValues == <<100, 320, 330, 500, 900, 0>>

Max(a, b) == IF a >= b THEN a ELSE b
Min(a, b) == IF a <= b THEN a ELSE b

lmr_reduction(depth, move_index) == IF depth >= 8 /\ move_index >= 8 THEN 2 ELSE 1

killers_at(s, ply) == IF ply \in DOMAIN s.killers_ THEN s.killers_[ply]
                      ELSE <<kNullMove, kNullMove>>

history_at(s, c, from, to) == IF <<c, from, to>> \in DOMAIN s.history_
                              THEN s.history_[<<c, from, to>>] ELSE 0

move_score(s, p, m, tt_move, ply) ==
    IF ~is_null(tt_move) /\ m = tt_move THEN 100000
    ELSE LET moving == piece_at(p.board_, m.from_sq)
             target == piece_at(p.board_, m.to_sq)
             promo == IF m.flag = Promotion /\ m.promotion # PT_None
                      THEN 20000 + kMvvValues[piece_index(m.promotion) + 1] ELSE 0
             quiet == (IF ply < kMaxPly
                       THEN IF killers_at(s, ply)[1] = m THEN kKillerPrimaryBonus
                            ELSE IF killers_at(s, ply)[2] = m THEN kKillerSecondaryBonus ELSE 0
                       ELSE 0)
                      + (IF moving.type # PT_None
                         THEN history_at(s, p.side_to_move_, m.from_sq, m.to_sq) ELSE 0)
             body == IF target.type # PT_None
                     THEN 10000 + 10 * kMvvValues[piece_index(target.type) + 1]
                          - (IF moving.type # PT_None
                             THEN kMvvValues[piece_index(moving.type) + 1] ELSE 0)
                     ELSE IF m.flag = EnPassant
                          THEN 10000 + 10 * kMvvValues[1] - kMvvValues[1]
                          ELSE quiet
             castle == IF m.flag = CastleKingside \/ m.flag = CastleQueenside THEN 120 ELSE 0
         IN  promo + body + castle

\* the selection sort from position i on: the first move of the highest score is swapped
\* into place i (sc holds the scores of ml, swapped along)
RECURSIVE selection_sort(_, _, _)
selection_sort(ml, sc, i) ==
    IF i > Len(ml) THEN ml
    ELSE LET best_idx == CHOOSE j \in i .. Len(ml) :
                             /\ \A k \in i .. Len(ml) : sc[k] <= sc[j]
                             /\ \A k \in i .. (j - 1) : sc[k] < sc[j]
         IN  selection_sort([ml EXCEPT ![i] = ml[best_idx], ![best_idx] = ml[i]],
                            [sc EXCEPT ![i] = sc[best_idx], ![best_idx] = sc[i]], i + 1)

order_moves(s, p, ml, tt_move, ply) ==
    selection_sort(ml, [k \in 1 .. Len(ml) |-> move_score(s, p, ml[k], tt_move, ply)], 1)

record_killer(s, m, ply) ==
    IF ply < 0 \/ ply >= kMaxPly THEN s
    ELSE IF killers_at(s, ply)[1] = m THEN s
         ELSE [s EXCEPT !.killers_ = (ply :> <<m, killers_at(s, ply)[1]>>) @@ @]

update_history(s, side, m, depth) ==
    LET h == history_at(s, side, m.from_sq, m.to_sq) + depth * depth
    IN  [s EXCEPT !.history_ =
             (<<side, m.from_sq, m.to_sq>> :> (IF h > kHistoryMax THEN kHistoryMax ELSE h)) @@ @]

\* expired is the reading of the clock: steady_clock::now() >= deadline_
should_stop(s) ==
    \/ s.cancelled_
    \/ (s.has_deadline_ /\ s.nodes_ % kTimeCheckInterval = 0 /\ s.expired)

\* the squares of the bits of 0x55AA55AA55AA55AA
kLightSquares == {sq \in Squares : (file_of(sq) + rank_of(sq)) % 2 = 1}

is_draw(p) ==
    LET board == p.board_
        total_pieces == Cardinality(occupied_all(board))
        wb == pieces(board, White, Bishop)
        bb == pieces(board, Black, Bishop)
    IN  \/ p.halfmove_clock_ >= 100
        \/ repetition_count(p) >= 2
        \/ total_pieces = 2
        \/ /\ total_pieces = 3
           /\ \E c \in {White, Black} :
                  pieces(board, c, Knight) # kEmptyBB \/ pieces(board, c, Bishop) # kEmptyBB
        \/ /\ total_pieces = 4
           /\ wb # kEmptyBB /\ bb # kEmptyBB
           /\ ((wb \cap kLightSquares) # kEmptyBB) = ((bb \cap kLightSquares) # kEmptyBB)

has_non_pawn_material(p, side) ==
    \/ pieces(p.board_, side, Knight) # kEmptyBB
    \/ pieces(p.board_, side, Bishop) # kEmptyBB
    \/ pieces(p.board_, side, Rook) # kEmptyBB
    \/ pieces(p.board_, side, Queen) # kEmptyBB

(***************************************************************************)
(* The call stack of search().  A frame is one activation of negamax or    *)
(* quiescence: its parameters, its locals and the place (phase) where it   *)
(* waits for the call it made.  i is the 0-based loop index of the code.   *)
(* A machine state M is the Search record s and the Position p.            *)
(***************************************************************************)
Neg(x) == 0 - x

NewFrame(fn, depth, alpha, beta, ply, allow_null, q_depth) ==
    [fn |-> fn, phase |-> "entry", depth |-> depth, alpha |-> alpha, beta |-> beta, ply |-> ply,
     allow_null |-> allow_null, q_depth |-> q_depth, alpha_orig |-> alpha,
     alpha_loop |-> alpha,
     tt_move |-> kNullMove, in_check |-> FALSE, moves |-> << >>, best_score |-> Neg(kInfScore),
     best_move |-> kNullMove, side_to_move |-> White, can_futility |-> FALSE,
     is_quiet |-> FALSE, i |-> 0]

Top(s) == s.stack[Len(s.stack)]
SetTop(s, f) == [s EXCEPT !.stack[Len(s.stack)] = f]
MS(s, p) == [s |-> s, p |-> p]

\* a call: the callee's frame goes on the stack
Call(M, f) == MS([M.s EXCEPT !.stack = Append(@, f), !.pc = "call"], M.p)

\* "return v": the frame goes, the value waits for the caller
Return(M, v) ==
    MS([M.s EXCEPT !.stack = SubSeq(@, 1, Len(@) - 1), !.ret = v, !.pc = "ret"], M.p)

\* bookkeeping of a poll of should_stop: the iteration of the first poll that said stop,
\* and the value of the node counter the poll saw
Observe(s) == [s EXCEPT !.stop_iter = IF @ = 0 /\ should_stop(s) THEN s.depth ELSE @,
                        !.seen = s.nodes_]

\* bookkeeping of a call of store made by negamax: the score as it was handed over, kept
\* for the slot if the table took it, and the circumstances of the call
Stored(s, f, key, bound, tt1) ==
    [s EXCEPT !.tt_ = tt1,
              !.passed = IF tt1 # s.tt_ THEN (index(tt1, key) :> f.best_score) @@ @ ELSE @,
              !.last_store = [n |-> @.n + 1, depth |-> f.depth, score |-> f.best_score,
                              bound |-> bound, alpha_orig |-> f.alpha_orig,
                              alpha_loop |-> f.alpha_loop, beta |-> f.beta,
                              stopped |-> s.stop_iter # 0]]

\* lines 305-319: the end of negamax behind the move loop
\* a classification that takes a best score equal to the original alpha for Exact
negamax_finish_strict(M) ==
    LET f == Top(M.s)
        bound == IF f.best_score < f.alpha_orig THEN Upper
                 ELSE IF f.best_score >= f.beta THEN Lower ELSE Exact
    IN  IF f.best_score = Neg(kInfScore) THEN Return(M, evaluate(M.p))
        ELSE Return(MS(Stored(M.s, f, M.p.key_, bound,
                              store(M.s.tt_, M.p.key_, f.depth, f.best_score, bound,
                                    f.best_move, evaluate(M.p))), M.p),
                    f.best_score)

negamax_finish(M) ==
    LET f == Top(M.s)
        bound == IF f.best_score <= f.alpha_orig THEN Upper
                 ELSE IF f.best_score >= f.beta THEN Lower ELSE Exact
    IN  IF f.best_score = Neg(kInfScore) THEN Return(M, evaluate(M.p))
        ELSE Return(MS(Stored(M.s, f, M.p.key_, bound,
                              store(M.s.tt_, M.p.key_, f.depth, f.best_score, bound,
                                    f.best_move, evaluate(M.p))), M.p),
                    f.best_score)

\* lines 249-282: the move loop of negamax from index f.i up to the call for the next
\* move that futility pruning does not skip
negamax_loop(M) ==
    LET f == Top(M.s)
        n == Len(f.moves)
        quiet(k) == /\ piece_at(M.p.board_, f.moves[k + 1].to_sq).type = PT_None
                    /\ f.moves[k + 1].flag # EnPassant
                    /\ f.moves[k + 1].flag # Promotion
        skipped(k) == /\ f.can_futility /\ quiet(k) /\ k > 0
                      /\ f.best_score > Neg(kMateScore) + kMaxPly
        searched == {k \in f.i .. (n - 1) : ~skipped(k)}
    IN  IF searched = {} THEN negamax_finish(MS(SetTop(M.s, [f EXCEPT !.i = n]), M.p))
        ELSE LET k == CHOOSE j \in searched : \A j2 \in searched : j <= j2
                 m == f.moves[k + 1]
                 can_lmr == /\ quiet(k) /\ ~f.in_check /\ f.depth >= kLmrMinDepth
                            /\ k >= kLmrMinMoveIndex
                            /\ (is_null(f.tt_move) \/ m # f.tt_move)
                 p1 == make_move(M.p, m)
                 reduced == can_lmr /\ ~is_in_check(p1, p1.side_to_move_)
                 f1 == [f EXCEPT !.i = k, !.is_quiet = quiet(k),
                                 !.phase = IF reduced THEN "lmr" ELSE "full"]
                 child == IF reduced
                          THEN NewFrame("negamax",
                                        Max(0, f.depth - 1 - lmr_reduction(f.depth, k)),
                                        Neg(f.alpha) - 1, Neg(f.alpha), f.ply + 1, TRUE, 0)
                          ELSE NewFrame("negamax", f.depth - 1, Neg(f.beta), Neg(f.alpha),
                                        f.ply + 1, TRUE, 0)
             IN  Call(MS(SetTop(M.s, f1), p1), child)

\* lines 226-247: move generation, ordering and the futility flag, then the loop
negamax_moves(M) ==
    LET f == Top(M.s)
        run == legal_run(M.p)
        p1 == run.pos
        futility_base == evaluate(p1) + kFutilityMargin * f.depth
        f1 == [f EXCEPT !.moves = order_moves(M.s, p1, run.moves, f.tt_move, f.ply),
                        !.best_score = Neg(kInfScore),
                        !.best_move = kNullMove,
                        !.side_to_move = p1.side_to_move_,
                        !.can_futility = /\ ~f.in_check /\ f.depth <= 2 /\ f.ply > 0
                                         /\ futility_base <= f.alpha,
                        !.i = 0]
    IN  IF run.moves = << >>
        THEN Return(MS(M.s, p1), IF f.in_check THEN Neg(kMateScore) + f.ply ELSE 0)
        ELSE negamax_loop(MS(SetTop(M.s, f1), p1))

\* lines 151-223: negamax from its entry to its first call or return
negamax_entry(M) ==
    LET f == Top(M.s)
        p == M.p
        s1 == [Observe(M.s) EXCEPT !.nodes_ = @ + 1]
        hit == probe(s1.tt_, p.key_)
        tt_move == IF hit.hit THEN hit.entry.best_move ELSE kNullMove
        tt_score == hit.entry.score
        usable == /\ hit.hit /\ hit.entry.depth >= f.depth
                  /\ ~(tt_score > kMateScore - kMaxPly)
                  /\ ~(tt_score < Neg(kMateScore) + kMaxPly)
        alpha == IF usable /\ hit.entry.bound = Lower THEN Max(f.alpha, tt_score) ELSE f.alpha
        beta == IF usable /\ hit.entry.bound = Upper THEN Min(f.beta, tt_score) ELSE f.beta
        in_check == is_in_check(p, p.side_to_move_)
        depth == IF in_check THEN f.depth + 1 ELSE f.depth
        static_eval == evaluate(p)
        f1 == [f EXCEPT !.alpha = alpha, !.beta = beta, !.tt_move = tt_move,
                        !.in_check = in_check, !.depth = depth, !.alpha_loop = alpha]
        null_depth == Max(0, depth - 1 - (kNullMoveBaseReduction + (depth \div 4)))
    IN  IF should_stop(M.s) THEN Return(MS(Observe(M.s), p), evaluate(p))
        ELSE IF is_draw(p) THEN Return(MS(s1, p), 0)
        ELSE IF usable /\ hit.entry.bound = Exact THEN Return(MS(s1, p), tt_score)
        ELSE IF usable /\ alpha >= beta THEN Return(MS(s1, p), tt_score)
        ELSE IF f.depth <= 0
        THEN Call(MS(SetTop(s1, [f EXCEPT !.alpha = alpha, !.beta = beta,
                                          !.tt_move = tt_move, !.phase = "qs"]), p),
                  NewFrame("quiescence", 0, alpha, beta, f.ply, FALSE, 0))
        ELSE IF /\ ~in_check /\ depth <= 3 /\ f.ply > 0
                /\ static_eval - kReverseFutilityMargin * depth >= beta
        THEN Return(MS(s1, p), static_eval)
        ELSE IF /\ f.allow_null /\ ~in_check /\ depth >= kNullMoveMinDepth /\ f.ply > 0
                /\ has_non_pawn_material(p, p.side_to_move_)
        THEN Call(MS(SetTop([s1 EXCEPT !.null_moves = @ + 1], [f1 EXCEPT !.phase = "null"]),
                     make_null_move(p)),
                  NewFrame("negamax", null_depth, Neg(beta), Neg(beta) + 1, f.ply + 1, FALSE, 0))
        ELSE negamax_moves(MS(SetTop(s1, f1), p))

\* lines 216-223: the null-move search has returned
negamax_after_null(M) ==
    LET f == Top(M.s)
        null_score == Neg(M.s.ret)
        p1 == unmake_null_move(M.p)
        s1 == Observe(M.s)
    IN  IF should_stop(M.s) THEN Return(MS(s1, p1), evaluate(p1))
        ELSE IF null_score >= f.beta THEN Return(MS(s1, p1), f.beta)
        ELSE negamax_moves(MS(s1, p1))

\* lines 274-303: a search of the move at index f.i has returned
negamax_after_child(M) ==
    LET f == Top(M.s)
        score == Neg(M.s.ret)
        m == f.moves[f.i + 1]
        p1 == unmake_move(M.p, m)
        f1 == [f EXCEPT !.best_score = IF score > @ THEN score ELSE @,
                        !.best_move = IF score > f.best_score THEN m ELSE @,
                        !.alpha = IF score > @ THEN score ELSE @]
        s_cut == IF f.is_quiet
                 THEN update_history(record_killer(M.s, m, f.ply), f.side_to_move, m, f.depth)
                 ELSE M.s
    IN  IF f.phase = "lmr" /\ score > f.alpha
        THEN Call(MS(SetTop(M.s, [f EXCEPT !.phase = "full"]), M.p),
                  NewFrame("negamax", f.depth - 1, Neg(f.beta), Neg(f.alpha), f.ply + 1, TRUE, 0))
        ELSE IF f1.alpha >= f.beta THEN negamax_finish(MS(SetTop(s_cut, f1), p1))
        ELSE IF should_stop(M.s) THEN negamax_finish(MS(SetTop(Observe(M.s), f1), p1))
        ELSE negamax_loop(MS(SetTop(Observe(M.s), [f1 EXCEPT !.i = f.i + 1]), p1))

\* line 191: the value of quiescence is the value of negamax
negamax_after_quiescence(M) == Return(M, M.s.ret)

\* lines 349-350 and 397-398: the move at index f.i is made and quiescence called on it
quiescence_call(M) ==
    LET f == Top(M.s)
    IN  Call(MS(M.s, make_move(M.p, f.moves[f.i + 1])),
             NewFrame("quiescence", 0, Neg(f.beta), Neg(f.alpha), f.ply + 1, FALSE,
                      f.q_depth + 1))

\* a quiescence that counts its node before it polls
quiescence_entry_counting(M) ==
    LET f == Top(M.s)
        p == M.p
        s1 == [Observe(M.s) EXCEPT !.nodes_ = @ + 1]
        in_check == is_in_check(p, p.side_to_move_)
        run == legal_run(p)
        stand_pat == evaluate(p)
        alpha == IF stand_pat > f.alpha THEN stand_pat ELSE f.alpha
        noisy == legal_loop(p, captures(p), p.side_to_move_, 1, Len(captures(p)))
        evasions == [f EXCEPT !.in_check = TRUE, !.phase = "evasions", !.i = 0,
                              !.best_score = Neg(kInfScore),
                              !.moves = order_moves(s1, run.pos, run.moves, kNullMove, f.ply)]
        tactical == [f EXCEPT !.alpha = alpha, !.phase = "noisy", !.i = 0,
                              !.moves = order_moves(s1, noisy.pos, noisy.moves, kNullMove,
                                                    f.ply)]
    IN  IF should_stop(M.s) THEN Return(MS(s1, p), evaluate(p))
        ELSE IF is_draw(p) THEN Return(MS(s1, p), 0)
        ELSE IF in_check
        THEN IF run.moves = << >> THEN Return(MS(s1, run.pos), Neg(kMateScore) + f.ply)
             ELSE IF f.q_depth >= kQuiescenceMaxDepth
                  THEN Return(MS(s1, run.pos), evaluate(run.pos))
                  ELSE quiescence_call(MS(SetTop(s1, evasions), run.pos))
        ELSE IF f.q_depth >= kQuiescenceMaxDepth THEN Return(MS(s1, p), stand_pat)
        ELSE IF stand_pat >= f.beta THEN Return(MS(s1, p), f.beta)
        ELSE IF noisy.moves = << >> THEN Return(MS(s1, noisy.pos), alpha)
        ELSE quiescence_call(MS(SetTop(s1, tactical), noisy.pos))

\* lines 325-398: quiescence from its entry to its first call or return
quiescence_entry(M) ==
    LET f == Top(M.s)
        p == M.p
        s1 == [Observe(M.s) EXCEPT !.nodes_ = @ + 1]
        in_check == is_in_check(p, p.side_to_move_)
        run == legal_run(p)
        stand_pat == evaluate(p)
        alpha == IF stand_pat > f.alpha THEN stand_pat ELSE f.alpha
        noisy == legal_loop(p, captures(p), p.side_to_move_, 1, Len(captures(p)))
        evasions == [f EXCEPT !.in_check = TRUE, !.phase = "evasions", !.i = 0,
                              !.best_score = Neg(kInfScore),
                              !.moves = order_moves(s1, run.pos, run.moves, kNullMove, f.ply)]
        tactical == [f EXCEPT !.alpha = alpha, !.phase = "noisy", !.i = 0,
                              !.moves = order_moves(s1, noisy.pos, noisy.moves, kNullMove,
                                                    f.ply)]
    IN  IF should_stop(M.s) THEN Return(MS(Observe(M.s), p), evaluate(p))
        ELSE IF is_draw(p) THEN Return(MS(s1, p), 0)
        ELSE IF in_check
        THEN IF run.moves = << >> THEN Return(MS(s1, run.pos), Neg(kMateScore) + f.ply)
             ELSE IF f.q_depth >= kQuiescenceMaxDepth
                  THEN Return(MS(s1, run.pos), evaluate(run.pos))
                  ELSE quiescence_call(MS(SetTop(s1, evasions), run.pos))
        ELSE IF f.q_depth >= kQuiescenceMaxDepth THEN Return(MS(s1, p), stand_pat)
        ELSE IF stand_pat >= f.beta THEN Return(MS(s1, p), f.beta)
        ELSE IF noisy.moves = << >> THEN Return(MS(s1, noisy.pos), alpha)
        ELSE quiescence_call(MS(SetTop(s1, tactical), noisy.pos))

\* lines 350-362: a check evasion has been searched
quiescence_after_evasion(M) ==
    LET f == Top(M.s)
        score == Neg(M.s.ret)
        p1 == unmake_move(M.p, f.moves[f.i + 1])
        f1 == [f EXCEPT !.best_score = IF score > @ THEN score ELSE @,
                        !.alpha = IF score > @ THEN score ELSE @]
    IN  IF f1.alpha >= f.beta THEN Return(MS(M.s, p1), f1.best_score)
        ELSE IF should_stop(M.s) THEN Return(MS(Observe(M.s), p1), f1.best_score)
        ELSE IF f.i + 1 >= Len(f.moves) THEN Return(MS(Observe(M.s), p1), f1.best_score)
        ELSE quiescence_call(MS(SetTop(Observe(M.s), [f1 EXCEPT !.i = f.i + 1]), p1))

\* lines 398-409: a capture or promotion has been searched
quiescence_after_noisy(M) ==
    LET f == Top(M.s)
        score == Neg(M.s.ret)
        p1 == unmake_move(M.p, f.moves[f.i + 1])
        f1 == [f EXCEPT !.alpha = IF score > @ THEN score ELSE @]
    IN  IF score >= f.beta THEN Return(MS(M.s, p1), f.beta)
        ELSE IF should_stop(M.s) THEN Return(MS(Observe(M.s), p1), f1.alpha)
        ELSE IF f.i + 1 >= Len(f.moves) THEN Return(MS(Observe(M.s), p1), f1.alpha)
        ELSE quiescence_call(MS(SetTop(Observe(M.s), [f1 EXCEPT !.i = f.i + 1]), p1))

(***************************************************************************)
(* Search::search, lines 64-146.                                           *)
(***************************************************************************)
SearchResult(best_move, score_cp, depth, nodes) ==
    [best_move |-> best_move, score_cp |-> score_cp, depth |-> depth, nodes |-> nodes]

\* line 145
search_return(s) ==
    [s EXCEPT !.pc = "done",
              !.result = SearchResult(s.best_move, s.best_score, s.completed_depth, s.nodes_)]

\* a root without legal moves reported as a draw whatever the check
no_moves_result_draw(p, nodes) == SearchResult(kNullMove, 0, 0, nodes)

\* lines 79-85: checkmate or stalemate at the root
no_moves_result(p, nodes) ==
    IF is_in_check(p, p.side_to_move_) THEN SearchResult(kNullMove, Neg(kMateScore), 0, nodes)
    ELSE SearchResult(kNullMove, 0, 0, nodes)

\* no move at all as the result to fall back on
first_root_move_none(root_moves) == kNullMove

\* line 90: the result to fall back on is the first move of the ordered root list
first_root_move(root_moves) == root_moves[1]

\* lines 65-92
search_begin(M) ==
    LET s0 == [M.s EXCEPT !.cancelled_ = FALSE,
                          !.nodes_ = 0,
                          !.killers_ = << >>,
                          !.history_ = << >>,
                          !.tt_ = new_search(@),
                          !.has_deadline_ = (M.s.limits.time_limit_ms > 0)]
        run == legal_run(M.p)
        root_moves == order_moves(s0, run.pos, run.moves, kNullMove, 0)
    IN  IF run.moves = << >>
        THEN MS([s0 EXCEPT !.pc = "done", !.result = no_moves_result(run.pos, s0.nodes_)],
                run.pos)
        ELSE MS([s0 EXCEPT !.root_moves = root_moves,
                           !.best_move = first_root_move(root_moves),
                           !.best_score = Neg(kInfScore),
                           !.completed_depth = 0,
                           !.depth = 1,
                           !.pc = "iter"], run.pos)

\* lines 95-102: the loop test, the poll and the locals of one iteration
iteration_start(M) ==
    LET s == M.s
    IN  IF s.depth > s.limits.max_depth THEN MS(search_return(s), M.p)
        ELSE IF should_stop(s) THEN MS(search_return(Observe(s)), M.p)
        ELSE MS([Observe(s) EXCEPT !.score = Neg(kInfScore),
                          !.iter_best = kNullMove,
                          !.alpha = Neg(kInfScore),
                          !.beta = kInfScore,
                          !.i = 0,
                          !.started_after_cancel = @ \/ s.cancels > 0,
                          !.pc = "root"], M.p)

\* lines 104-110: the poll before a root move, the move and the call
root_move(M) ==
    LET s == M.s
    IN  IF should_stop(s) THEN MS([Observe(s) EXCEPT !.pc = "iter_end"], M.p)
        ELSE Call(MS(Observe(s), make_move(M.p, s.root_moves[s.i + 1])),
                  NewFrame("negamax", s.depth - 1, Neg(s.beta), Neg(s.alpha), 1, TRUE, 0))

\* the return from a root move that leaves the move on the board
root_return_no_unmake(M) ==
    LET s == M.s
        sc == Neg(s.ret)
        m == s.root_moves[s.i + 1]
    IN  MS([s EXCEPT !.score = IF sc > @ THEN sc ELSE @,
                     !.iter_best = IF sc > s.score THEN m ELSE @,
                     !.alpha = IF sc > @ THEN sc ELSE @,
                     !.i = @ + 1,
                     !.pc = IF s.i + 1 < Len(s.root_moves) THEN "root" ELSE "iter_end"],
           M.p)

\* lines 110-120 and the loop step: the search of root move i has returned
root_return(M) ==
    LET s == M.s
        sc == Neg(s.ret)
        m == s.root_moves[s.i + 1]
    IN  MS([s EXCEPT !.score = IF sc > @ THEN sc ELSE @,
                     !.iter_best = IF sc > s.score THEN m ELSE @,
                     !.alpha = IF sc > @ THEN sc ELSE @,
                     !.i = @ + 1,
                     !.pc = IF s.i + 1 < Len(s.root_moves) THEN "root" ELSE "iter_end"],
           unmake_move(M.p, m))

\* lines 132-142: the move shifted to the front of the list
move_to_front(ml, m) ==
    LET at == {i \in 1 .. Len(ml) : ml[i] = m}
    IN  IF at = {} THEN ml
        ELSE LET i == CHOOSE j \in at : \A j2 \in at : j <= j2
             IN  <<m>> \o SubSeq(ml, 1, i - 1) \o SubSeq(ml, i + 1, Len(ml))

\* an iteration taken for complete although a stop has been seen
iteration_aborted_never(s) == FALSE

\* line 122: a stop seen behind the root loop discards the iteration
iteration_aborted(s) == should_stop(s)

\* an iteration that records its depth and keeps the earlier move and score
complete_iteration_depth_only(s) == [s EXCEPT !.completed_depth = s.depth]

\* lines 127-142: the iteration's result becomes the result of the search
complete_iteration(s) ==
    [s EXCEPT !.best_move = s.iter_best,
              !.best_score = s.score,
              !.completed_depth = s.depth,
              !.root_moves = move_to_front(@, s.iter_best)]

\* lines 122-143 and the loop step; log keeps what each completed iteration found
iteration_end(M) ==
    LET s == M.s
    IN  IF iteration_aborted(s) THEN MS(search_return(Observe(s)), M.p)
        ELSE IF is_null(s.iter_best) THEN MS(search_return(Observe(s)), M.p)
        ELSE MS([complete_iteration(Observe(s)) EXCEPT
                     !.log = Append(@, SearchResult(s.iter_best, s.score, s.depth, s.nodes_)),
                     !.depth = @ + 1,
                     !.pc = "iter"], M.p)

(***************************************************************************)
(* A search: Search::search runs on one thread, cancel() is called on      *)
(* another, the clock passes the deadline when it will.  A step of the     *)
(* search is the code from one poll of should_stop to the next call,       *)
(* return or poll.                                                         *)
(***************************************************************************)
kMateInOneFen ==
    <<<<"k", "7", "/", "8", "/", "1", "K", "6", "/", "8", "/", "8", "/", "8", "/", "8", "/",
        "1", "Q", "6">>, <<"w">>, <<"-">>, <<"-">>, <<"0">>, <<"1">>>>

kQuietFen ==
    <<<<"7", "k", "/", "5", "p", "1", "p", "/", "5", "P", "n", "P", "/", "8", "/", "8", "/",
        "p", "1", "p", "5", "/", "P", "1", "P", "5", "/", "K", "1", "N", "5">>,
      <<"w">>, <<"-">>, <<"-">>, <<"0">>, <<"1">>>>

kStalemateFen ==
    <<<<"k", "7", "/", "2", "Q", "5", "/", "1", "K", "6", "/", "8", "/", "8", "/", "8", "/",
        "8", "/", "8">>, <<"b">>, <<"-">>, <<"-">>, <<"0">>, <<"1">>>>

kCheckmateFen ==
    <<<<"3", "k", "4", "/", "3", "Q", "4", "/", "3", "K", "4", "/", "8", "/", "8", "/", "8", "/",
        "8", "/", "8">>, <<"b">>, <<"-">>, <<"-">>, <<"0">>, <<"1">>>>

MaxCancels == 1
ShallowDepth == 2
DeepDepth == 4
NoTimeLimit == 0 - 1
TimeLimitMs == 5

SearchLimits(max_depth, time_limit_ms) ==
    [max_depth |-> max_depth, time_limit_ms |-> time_limit_ms]

SearchRoots ==
    {[fen |-> kStartingFen, limits |-> SearchLimits(1, NoTimeLimit)],
     [fen |-> kMateInOneFen, limits |-> SearchLimits(ShallowDepth, NoTimeLimit)],
     [fen |-> kQuietFen, limits |-> SearchLimits(DeepDepth, NoTimeLimit)],
     [fen |-> kEnPassantFen, limits |-> SearchLimits(ShallowDepth, TimeLimitMs)],
     [fen |-> kPromotionCaptureFen, limits |-> SearchLimits(ShallowDepth, NoTimeLimit)]}
    \cup {[fen |-> f, limits |-> SearchLimits(d, t)] :
              f \in {kStalemateFen, kCheckmateFen}, d \in {0, 1, DeepDepth},
              t \in {NoTimeLimit, 0, TimeLimitMs}}

\* a constructed Search on which search(p, limits) has been called and has yet to run
\* its first line; entry is the position as it was handed over
Search(tt_mb, limits, p) ==
    [pc |-> "start", tt_ |-> TranspositionTable(tt_mb), killers_ |-> << >>,
     history_ |-> << >>, cancelled_ |-> FALSE, has_deadline_ |-> FALSE, nodes_ |-> 0,
     limits |-> limits, root_moves |-> << >>, best_move |-> kNullMove, best_score |-> 0,
     completed_depth |-> 0, depth |-> 0, score |-> 0, iter_best |-> kNullMove, alpha |-> 0,
     beta |-> 0, i |-> 0, stack |-> << >>, ret |-> 0,
     result |-> SearchResult(kNullMove, 0, 0, 0),
     entry |-> p, expired |-> FALSE, cancels |-> 0, nodes_at_cancel |-> 0,
     started_after_cancel |-> FALSE, stop_iter |-> 0, log |-> << >>, null_moves |-> 0,
     passed |-> << >>, seen |-> 0 - 1,
     last_store |-> [n |-> 0, depth |-> 0, score |-> 0, bound |-> Bound_None, alpha_orig |-> 0,
                     alpha_loop |-> 0, beta |-> 0, stopped |-> FALSE]]

InitSearch ==
    /\ \E root \in SearchRoots :
           /\ pos = from_fen(root.fen).pos
           /\ srch = Search(kDefaultSizeMB, root.limits, from_fen(root.fen).pos)
    /\ made = << >>
    /\ ttab = Idle /\ parse = Idle /\ magic = Idle /\ pft = Idle

Run(r) == srch' = r.s /\ pos' = r.p /\ UNCHANGED <<made, ttab, parse, magic, pft>>

Waiting(fn, phase) ==
    /\ srch.pc = "ret" /\ srch.stack # << >>
    /\ Top(srch).fn = fn /\ Top(srch).phase = phase

SearchBegin == srch.pc = "start" /\ \E r \in {search_begin(MS(srch, pos))} : Run(r)

IterationStart == srch.pc = "iter" /\ \E r \in {iteration_start(MS(srch, pos))} : Run(r)

RootMove == srch.pc = "root" /\ \E r \in {root_move(MS(srch, pos))} : Run(r)

RootReturn ==
    /\ srch.pc = "ret" /\ srch.stack = << >>
    /\ \E r \in {root_return(MS(srch, pos))} : Run(r)

IterationEnd == srch.pc = "iter_end" /\ \E r \in {iteration_end(MS(srch, pos))} : Run(r)

NegamaxEntry ==
    /\ srch.pc = "call" /\ Top(srch).fn = "negamax"
    /\ \E r \in {negamax_entry(MS(srch, pos))} : Run(r)

NegamaxAfterNull ==
    Waiting("negamax", "null") /\ \E r \in {negamax_after_null(MS(srch, pos))} : Run(r)

NegamaxAfterChild ==
    /\ srch.pc = "ret" /\ srch.stack # << >>
    /\ Top(srch).fn = "negamax" /\ Top(srch).phase \in {"lmr", "full"}
    /\ \E r \in {negamax_after_child(MS(srch, pos))} : Run(r)

NegamaxAfterQuiescence ==
    Waiting("negamax", "qs") /\ \E r \in {negamax_after_quiescence(MS(srch, pos))} : Run(r)

QuiescenceEntry ==
    /\ srch.pc = "call" /\ Top(srch).fn = "quiescence"
    /\ \E r \in {quiescence_entry(MS(srch, pos))} : Run(r)

QuiescenceAfterEvasion ==
    Waiting("quiescence", "evasions")
    /\ \E r \in {quiescence_after_evasion(MS(srch, pos))} : Run(r)

QuiescenceAfterNoisy ==
    Waiting("quiescence", "noisy")
    /\ \E r \in {quiescence_after_noisy(MS(srch, pos))} : Run(r)

\* Search::cancel on the other thread, at any moment before search() has returned
Cancel ==
    /\ srch.pc # "done" /\ srch.cancels < MaxCancels
    /\ srch' = [srch EXCEPT !.cancelled_ = TRUE,
                            !.cancels = @ + 1,
                            !.nodes_at_cancel = IF srch.cancels = 0 THEN srch.nodes_ ELSE @]
    /\ UNCHANGED <<pos, made, ttab, parse, magic, pft>>

\* the clock reaches deadline_
DeadlinePasses ==
    /\ srch.pc \notin {"start", "done"} /\ srch.has_deadline_ /\ ~srch.expired
    /\ srch' = [srch EXCEPT !.expired = TRUE]
    /\ UNCHANGED <<pos, made, ttab, parse, magic, pft>>

NextSearch ==
    \/ SearchBegin \/ IterationStart \/ RootMove \/ RootReturn \/ IterationEnd
    \/ NegamaxEntry \/ NegamaxAfterNull \/ NegamaxAfterChild \/ NegamaxAfterQuiescence
    \/ QuiescenceEntry \/ QuiescenceAfterEvasion \/ QuiescenceAfterNoisy
    \/ Cancel \/ DeadlinePasses

SpecSearch == InitSearch /\ [][NextSearch]_vars


(***************************************************************************)
(* The boundary: Engine.search of pybind_module.cpp hands the best move    *)
(* over as a UCI string, a sequence of characters here.                    *)
(***************************************************************************)
square_name(sq) == <<FileChars[file_of(sq) + 1], RankChars[rank_of(sq) + 1]>>

kPromoChars == <<" ", " ", "n", "b", "r", "q", " ">>

uci(m) ==
    square_name(m.from_sq) \o square_name(m.to_sq)
    \o (IF m.promotion # PT_None THEN <<kPromoChars[m.promotion + 1]>> ELSE << >>)

\* the first element of the tuple Engine.search returns: empty for the null move
uci_move(result) == IF ~is_null(result.best_move) THEN uci(result.best_move) ELSE << >>

(***************************************************************************)
(* Claims about Search::search                                             *)
(***************************************************************************)
Done == srch.pc = "done"

RootLegal == legal(srch.entry)

\* a search that got past the root move generation with a move to play
HasRootMoves == srch.root_moves # << >>

\* C5: when the root has a legal move and max_depth >= 1, the best_move search returns
\* is one of the root's legal moves, wherever cancel() or the deadline is observed.
BestMoveIsRootLegal ==
    (Done /\ RootLegal # << >> /\ srch.limits.max_depth >= 1)
        => \E i \in 1 .. Len(RootLegal) : RootLegal[i] = srch.result.best_move

\* a search stopped by cancel() after it completed an iteration has returned
BestMoveAfterStopReached ==
    /\ Done /\ HasRootMoves /\ srch.stop_iter >= 2 /\ srch.cancels > 0
    /\ srch.result.depth >= 1 /\ ~is_null(srch.result.best_move)

\* C6: the move, score and depth returned are those recorded at the end of the last
\* completed iteration: a stop first observed in iteration d leaves the result of
\* iteration d - 1 and nothing of iteration d, and with no stop observed the result is
\* that of iteration max_depth.
ResultIsLastCompleted ==
    (Done /\ HasRootMoves) =>
        /\ srch.result.depth = Len(srch.log)
        /\ srch.stop_iter > 0 => Len(srch.log) = srch.stop_iter - 1
        /\ srch.stop_iter = 0 => Len(srch.log) = Max(srch.limits.max_depth, 0)
        /\ Len(srch.log) >= 1 =>
               /\ srch.log[Len(srch.log)].depth = Len(srch.log)
               /\ srch.result.best_move = srch.log[Len(srch.log)].best_move
               /\ srch.result.score_cp = srch.log[Len(srch.log)].score_cp

\* a stop was observed in an iteration d >= 2 that had already scored a root move
\* differently from iteration d - 1
PartialIterationDiscardedReached ==
    /\ Done /\ srch.stop_iter >= 2 /\ ~is_null(srch.iter_best)
    /\ srch.score # srch.result.score_cp
    /\ srch.result.depth = srch.stop_iter - 1

\* the move search_begin falls back on: the first of the legal moves in generation
\* order that has the highest ordering score under cleared heuristics
FreshScore(m) ==
    move_score([srch EXCEPT !.killers_ = << >>, !.history_ = << >>], srch.entry, m, kNullMove, 0)

FirstBest(ml) ==
    ml[CHOOSE i \in 1 .. Len(ml) :
           /\ \A j \in 1 .. Len(ml) : FreshScore(ml[j]) <= FreshScore(ml[i])
           /\ \A j \in 1 .. i - 1 : FreshScore(ml[j]) < FreshScore(ml[i])]

\* a stop was observed before the first iteration completed, at the root that has moves
StoppedInFirstIteration == Done /\ HasRootMoves /\ srch.stop_iter = 1

\* C7 as the specification has it: a search stopped before any iteration completes
\* returns the null move, an empty descriptor at the boundary, and depth 0.
StoppedEarlyReportsNoMove ==
    StoppedInFirstIteration =>
        /\ is_null(srch.result.best_move)
        /\ uci_move(srch.result) = << >>
        /\ srch.result.depth = 0

\* C7: a search stopped before any iteration completes returns the first move of the
\* ordered root list, a legal move whose descriptor at the boundary is not empty, with
\* score -kInfScore and depth 0.
StoppedEarlyReportsFirstRootMove ==
    StoppedInFirstIteration =>
        /\ srch.result.best_move = FirstBest(RootLegal)
        /\ ~is_null(srch.result.best_move)
        /\ Len(uci_move(srch.result)) \in {4, 5}
        /\ srch.result.score_cp = Neg(kInfScore)
        /\ srch.result.depth = 0

\* cancel() was observed in the middle of iteration 1, after nodes had been counted and
\* a root move scored
StoppedEarlyReached ==
    /\ StoppedInFirstIteration /\ srch.nodes_ > 0 /\ srch.cancels > 0
    /\ ~is_null(srch.iter_best)

\* C8: once cancel() has been called during search(), no further node is counted and no
\* further iteration is started, whenever the call comes, the moment before search()
\* clears the flag included.
CancelStopsSearch ==
    srch.cancels > 0 => (srch.nodes_ = srch.nodes_at_cancel /\ ~srch.started_after_cancel)

\* the moves made and not yet unmade: one per routine waiting for a child it made a
\* move for, one for the root while a root move is searched
Outstanding ==
    Cardinality({k \in 1 .. Len(srch.stack) :
                     srch.stack[k].phase \in {"null", "lmr", "full", "evasions", "noisy"}})
    + (IF srch.pc \in {"call", "ret"} THEN 1 ELSE 0)

\* C9: when search returns, however it was stopped, the position is the one it was
\* given, undo stack and key history included; inside, every make_move and
\* make_null_move is undone before the routine that made it returns.
SearchRestoresPosition ==
    /\ srch.pc \in {"iter", "root", "iter_end", "done"} => pos = srch.entry
    /\ Len(pos.history_) = Len(srch.entry.history_) + Outstanding
    /\ Len(pos.key_history_) = Len(srch.entry.key_history_) + Outstanding

\* a search that made null moves was stopped halfway and has returned
StoppedSearchReturned ==
    /\ Done /\ srch.null_moves > 0 /\ srch.stop_iter > 0 /\ srch.nodes_ > 0
    /\ pos = srch.entry

\* C10: a root without legal moves gives the null move, depth 0, 0 nodes and the score
\* -kMateScore in check, 0 otherwise, for every max_depth and time limit.
NoMovesResult ==
    (Done /\ RootLegal = << >>) =>
        srch.result = SearchResult(kNullMove,
                                   IF is_in_check(srch.entry, srch.entry.side_to_move_)
                                   THEN Neg(kMateScore) ELSE 0,
                                   0, 0)

\* the checkmate searched with a depth and a deadline
CheckmateReturned ==
    /\ Done /\ RootLegal = << >> /\ is_in_check(srch.entry, srch.entry.side_to_move_)
    /\ srch.limits.max_depth = DeepDepth /\ srch.has_deadline_
    /\ srch.result.score_cp = Neg(kMateScore)

(***************************************************************************)
(* tt.cpp, engine.cpp: the rest of the TranspositionTable interface, and a *)
(* caller that stores, probes, starts searches, clears and resizes         *)
(***************************************************************************)
clear_entries_only(tt) == [tt EXCEPT !.table_ = << >>]

clear(tt) == [tt EXCEPT !.table_ = << >>, !.age_ = 0]

age(tt) == tt.age_

\* the entries hashfull samples
kHashfullSample == 1000

hashfull(tt) ==
    LET sample_size == Min(tt.mask_ + 1, kHashfullSample)
        used == Cardinality({i \in DOMAIN tt.table_ :
                                 /\ i < sample_size
                                 /\ tt.table_[i].bound # Bound_None
                                 /\ tt.table_[i].age = tt.age_})
    IN  (used * 1000) \div sample_size

\* Engine::set_tt_size on the table of the engine's Search
set_tt_size(tt, mb) == resize(mb)

\* new_search() once for each of n searches in a row (the test on half has TLC work the
\* first calls out before it goes on to the others)
RECURSIVE new_searches(_, _)
new_searches(tt, n) ==
    IF n = 0 THEN tt
    ELSE IF n = 1 THEN new_search(tt)
    ELSE LET half == new_searches(tt, n \div 2)
         IN  IF half.age_ >= 0 THEN new_searches(half, n - (n \div 2)) ELSE half

\* the values of the std::uint8_t age counter
kAgeRange == 256

\* test_tt: two keys of one slot with different tags, a third of the same slot and tag,
\* and a key of a slot among those hashfull samples
kKeyA == Word(68, 68, 51, 51, 34, 34, 17, 17)
kKeyB == Word(68, 68, 51, 51, 34, 34, 85, 85)
kKeyC == Word(68, 68, 53, 51, 34, 34, 17, 17)
kKeyD == FromInt(7)
TTKeys == {kKeyA, kKeyB, kKeyC, kKeyD}

kMoveD2D4 == Move(11, 27, DoublePawn, PT_None)
kMoveD1H7 == Move(3, 55, Normal, PT_None)

StoreArgs(depth, score, bound, best_move, static_eval) ==
    [depth |-> depth, score |-> score, bound |-> bound, best_move |-> best_move,
     static_eval |-> static_eval]

\* what callers hand to store: the values of test_tt and the mate scores of negamax
StoreCalls ==
    {StoreArgs(10, 29998, Exact, kMoveD1H7, 500),
     StoreArgs(10, kMateScore - 1, Exact, kMoveD1H7, 500),
     StoreArgs(4, 2 - kMateScore, Upper, kNullMove, 0 - 200),
     StoreArgs(5, 0 - 350, Upper, kMoveD2D4, 0 - 200),
     StoreArgs(3, 50, Lower, kNullMove, 30),
     StoreArgs(3, 100, Exact, kNullMove, 25),
     StoreArgs(5, 50, Lower, kMoveD2D4, 25)}

SearchRuns == {1, 2, kAgeRange - 1, kAgeRange}
TableSizes == {1, 2}

MaxTTOps == 3

\* born[idx] is the number of new_search calls made before the slot idx was written
TTCaller(tt) == [tt |-> tt, ops |-> 0, searches |-> 0, born |-> << >>, last |-> [op |-> "new"]]

InitTT ==
    /\ ttab = TTCaller(TranspositionTable(1))
    /\ pos = Idle /\ made = << >> /\ srch = Idle
    /\ parse = Idle /\ magic = Idle /\ pft = Idle

TTStep(next) == ttab' = next /\ UNCHANGED <<pos, made, srch, parse, magic, pft>>

Store ==
    /\ ttab.ops < MaxTTOps
    /\ \E key \in TTKeys, a \in StoreCalls :
           \E after \in {store(ttab.tt, key, a.depth, a.score, a.bound, a.best_move,
                               a.static_eval)} :
               TTStep([ttab EXCEPT
                   !.tt = after,
                   !.ops = @ + 1,
                   !.born = IF after = ttab.tt THEN @
                            ELSE (index(ttab.tt, key) :> ttab.searches) @@ @,
                   !.last = [op |-> "store", key |-> key, args |-> a, before |-> ttab.tt,
                             since |-> IF index(ttab.tt, key) \in DOMAIN ttab.born
                                       THEN ttab.searches - ttab.born[index(ttab.tt, key)]
                                       ELSE 0]])

Probe ==
    /\ ttab.ops < MaxTTOps
    /\ \E key \in TTKeys :
           TTStep([ttab EXCEPT
               !.ops = @ + 1,
               !.last = [op |-> "probe", key |-> key, before |-> ttab.tt,
                         found |-> probe(ttab.tt, key)]])

NewSearches ==
    /\ ttab.ops < MaxTTOps
    /\ \E n \in SearchRuns :
           TTStep([ttab EXCEPT
               !.tt = new_searches(@, n),
               !.ops = @ + 1,
               !.searches = @ + n,
               !.last = [op |-> "new_search", n |-> n, before |-> ttab.tt]])

Clear ==
    /\ ttab.ops < MaxTTOps
    /\ TTStep([ttab EXCEPT !.tt = clear(@), !.ops = @ + 1, !.born = << >>,
                           !.last = [op |-> "clear", before |-> ttab.tt]])

Resize ==
    /\ ttab.ops < MaxTTOps
    /\ \E mb \in TableSizes :
           TTStep([ttab EXCEPT !.tt = resize(mb), !.ops = @ + 1, !.born = << >>,
                               !.last = [op |-> "resize", before |-> ttab.tt]])

SetTTSize ==
    /\ ttab.ops < MaxTTOps
    /\ \E mb \in TableSizes :
           TTStep([ttab EXCEPT !.tt = set_tt_size(@, mb), !.ops = @ + 1, !.born = << >>,
                               !.last = [op |-> "set_tt_size", before |-> ttab.tt]])

NextTT == Store \/ Probe \/ NewSearches \/ Clear \/ Resize \/ SetTTSize

SpecTT == InitTT /\ [][NextTT]_vars

(***************************************************************************)
(* Properties of the transposition table                                   *)
(***************************************************************************)
LastStore == ttab.last.op = "store"

\* the slot a store found, the slot it left, and the rule of the replacement policy
SlotBefore == slot_at(ttab.last.before, index(ttab.last.before, ttab.last.key))
SlotAfter == slot_at(ttab.tt, index(ttab.tt, ttab.last.key))
PolicyReplaces ==
    \/ SlotBefore.bound = Bound_None
    \/ SlotBefore.age # ttab.last.before.age_
    \/ ttab.last.args.depth >= SlotBefore.depth
    \/ (ttab.last.args.bound = Exact /\ SlotBefore.bound # Exact)

\* C11: after a store that writes the slot, probe of the same key hits and returns the
\* stored depth, score, bound, best move (where one was handed over) and static eval
StoreProbeRoundTrip ==
    (LastStore /\ PolicyReplaces) =>
        \E found \in {probe(ttab.tt, ttab.last.key)} :
            /\ found.hit
            /\ found.entry.depth = ttab.last.args.depth
            /\ found.entry.score = ttab.last.args.score
            /\ found.entry.bound = ttab.last.args.bound
            /\ found.entry.static_eval = ttab.last.args.static_eval
            /\ (~is_null(ttab.last.args.best_move) =>
                    found.entry.best_move = ttab.last.args.best_move)

\* C12: store writes the slot of the key exactly when the slot is empty, or of another age,
\* or not deeper than the new entry, or the new entry is Exact and the slot is not; a store
\* that does not write leaves the table as it was, and one that writes changes that slot only
StoreReplacementRule ==
    LastStore =>
        IF PolicyReplaces
        THEN /\ SlotAfter.key32 = key_upper(ttab.last.key)
             /\ SlotAfter.depth = ttab.last.args.depth
             /\ SlotAfter.bound = ttab.last.args.bound
             /\ SlotAfter.age = ttab.tt.age_
             /\ ttab.tt.age_ = ttab.last.before.age_
             /\ ttab.tt.mask_ = ttab.last.before.mask_
             /\ \A i \in (DOMAIN ttab.tt.table_) \cup (DOMAIN ttab.last.before.table_) :
                    i # index(ttab.tt, ttab.last.key) =>
                        slot_at(ttab.tt, i) = slot_at(ttab.last.before, i)
        ELSE ttab.tt = ttab.last.before

\* a deeper entry of another key's tag survived a shallower store that is not Exact
StoreRefusedReached ==
    /\ LastStore /\ ~PolicyReplaces
    /\ SlotBefore.key32 # key_upper(ttab.last.key)
    /\ ttab.last.args.depth < SlotBefore.depth

\* C13: a store to a slot written n >= 1 new_search calls earlier replaces the entry,
\* whatever its depth and bound
StaleEntryReplaced ==
    (LastStore /\ ttab.last.since >= 1) =>
        /\ SlotAfter.key32 = key_upper(ttab.last.key)
        /\ SlotAfter.depth = ttab.last.args.depth
        /\ SlotAfter.bound = ttab.last.args.bound

\* the stored score as the int16 field holds it
SameInt16(field, value) == field \in -32768 .. 32767 /\ (field - value) % 65536 = 0

\* C14: a store that writes the slot with a null best move over an entry of the same tag
\* that has a best move keeps that move and updates depth, score, bound, static eval and
\* age; every other store that writes installs the move it was handed
NullMoveKeepsBestMove ==
    (LastStore /\ PolicyReplaces) =>
        /\ SlotAfter.best_move =
               IF /\ is_null(ttab.last.args.best_move)
                  /\ SlotBefore.key32 = key_upper(ttab.last.key)
                  /\ ~is_null(SlotBefore.best_move)
               THEN SlotBefore.best_move
               ELSE ttab.last.args.best_move
        /\ SlotAfter.depth = ttab.last.args.depth
        /\ SlotAfter.bound = ttab.last.args.bound
        /\ SameInt16(SlotAfter.score, ttab.last.args.score)
        /\ SameInt16(SlotAfter.static_eval, ttab.last.args.static_eval)
        /\ SlotAfter.age = ttab.tt.age_

\* a null-move store of another key with the same slot and tag, one search later, kept the
\* move and changed the other fields
BestMoveKeptReached ==
    /\ LastStore /\ PolicyReplaces
    /\ is_null(ttab.last.args.best_move)
    /\ SlotBefore.key32 = key_upper(ttab.last.key)
    /\ SlotAfter.best_move = kMoveD2D4
    /\ SlotAfter.depth # SlotBefore.depth
    /\ SlotAfter.score # SlotBefore.score
    /\ SlotAfter.age # SlotBefore.age

\* C15: after clear, resize and set_tt_size every probe misses, hashfull is 0 and age is 0;
\* probe leaves the table as it was; new_search changes the outcome of no probe
ClearedTableIsEmpty ==
    /\ ttab.last.op \in {"clear", "resize", "set_tt_size"} =>
           /\ \A key \in TTKeys : ~probe(ttab.tt, key).hit
           /\ hashfull(ttab.tt) = 0
           /\ age(ttab.tt) = 0
    /\ ttab.last.op = "probe" => ttab.tt = ttab.last.before
    /\ ttab.last.op = "new_search" =>
           \A key \in TTKeys : probe(ttab.tt, key) = probe(ttab.last.before, key)

\* clear on a table of a later age that held an entry hashfull counts and probe finds
ClearAfterStoresReached ==
    /\ ttab.last.op = "clear"
    /\ age(ttab.last.before) > 0
    /\ hashfull(ttab.last.before) > 0
    /\ \E key \in TTKeys : probe(ttab.last.before, key).hit

(***************************************************************************)
(* move.hpp: Move::from_uci, and the round trip of the legal moves         *)
(***************************************************************************)
\* the switch on the fifth character
promotion_of(ch) ==
    CASE ch = "n" -> Knight [] ch = "b" -> Bishop [] ch = "r" -> Rook [] ch = "q" -> Queen
      [] OTHER -> PT_None

from_uci(uci_str) ==
    IF Len(uci_str) < 4 THEN kNullMove
    ELSE LET from == parse_square(SubSeq(uci_str, 1, 2))
             to == parse_square(SubSeq(uci_str, 3, 4))
         IN  IF from = kNoSquare \/ to = kNoSquare THEN kNullMove
             ELSE IF Len(uci_str) >= 5
                  THEN Move(from, to, Promotion, promotion_of(uci_str[5]))
                  ELSE Move(from, to, Normal, PT_None)

\* C16: every legal move of a reachable position is recovered from its UCI string, with
\* from-square, to-square, flag and promotion type
UciRoundTrip ==
    \A ml \in {legal(pos)} : \A i \in 1 .. Len(ml) : from_uci(uci(ml[i])) = ml[i]

(***************************************************************************)
(* position.cpp: split_spaces and Position::to_fen; a descriptor is the    *)
(* sequence of its characters                                              *)
(***************************************************************************)
\* the fields of sv: the maximal runs of characters other than the space, in order
split_spaces(sv) ==
    LET starts == {i \in 1 .. Len(sv) : sv[i] # " " /\ (i = 1 \/ sv[i - 1] = " ")}
        stop(i) == CHOOSE j \in i .. Len(sv) :
                       /\ \A k \in i .. j : sv[k] # " "
                       /\ (j = Len(sv) \/ sv[j + 1] = " ")
        nth(n) == CHOOSE i \in starts : Cardinality({k \in starts : k < i}) = n - 1
    IN  [n \in 1 .. Cardinality(starts) |-> SubSeq(sv, nth(n), stop(nth(n)))]

\* Piece::fen_char
kChars == <<<<" ", "P", "N", "B", "R", "Q", "K">>, <<" ", "p", "n", "b", "r", "q", "k">>>>
fen_char(p) == kChars[p.color + 1][p.type + 1]

\* std::to_string of an int
RECURSIVE to_string(_)
to_string(n) ==
    IF n < 0 THEN <<"-">> \o to_string(0 - n)
    ELSE IF n < 10 THEN <<DecimalChars[n + 1]>>
    ELSE to_string(n \div 10) \o <<DecimalChars[(n % 10) + 1]>>

\* static_cast<char>('0' + empty) where there is a run of empty squares to write
empty_run(empty) == IF empty > 0 THEN <<DecimalChars[empty + 1]>> ELSE << >>

\* the file loop of one rank from the given file on, with the empty squares counted so far
RECURSIVE rank_text(_, _, _, _)
rank_text(b, rank, file, empty) ==
    IF file = 8 THEN empty_run(empty)
    ELSE IF piece_at(b, make_square(file, rank)) = kNoPiece
         THEN rank_text(b, rank, file + 1, empty + 1)
         ELSE empty_run(empty) \o <<fen_char(piece_at(b, make_square(file, rank)))>>
              \o rank_text(b, rank, file + 1, 0)

\* the rank loop, from the given rank down to rank 1
RECURSIVE placement_text(_, _)
placement_text(b, rank) ==
    (IF rank < 7 THEN <<"/">> ELSE << >>) \o rank_text(b, rank, 0, 0)
    \o (IF rank = 0 THEN << >> ELSE placement_text(b, rank - 1))

castling_text_dash(cr) == <<"-">>

castling_text(cr) ==
    IF cr = kCastlingNone THEN <<"-">>
    ELSE (IF HasRight(cr, kWhiteKingside) THEN <<"K">> ELSE << >>)
         \o (IF HasRight(cr, kWhiteQueenside) THEN <<"Q">> ELSE << >>)
         \o (IF HasRight(cr, kBlackKingside) THEN <<"k">> ELSE << >>)
         \o (IF HasRight(cr, kBlackQueenside) THEN <<"q">> ELSE << >>)

to_fen(p) ==
    placement_text(p.board_, 7)
    \o <<" ">> \o (IF p.side_to_move_ = White THEN <<"w">> ELSE <<"b">>)
    \o <<" ">> \o castling_text(p.castling_)
    \o <<" ">> \o (IF p.en_passant_ = kNoSquare THEN <<"-">> ELSE square_name(p.en_passant_))
    \o <<" ">> \o to_string(p.halfmove_clock_)
    \o <<" ">> \o to_string(p.fullmove_number_)

\* Position::from_fen on a descriptor
parse_fen(fen) == from_fen(split_spaces(fen))

(***************************************************************************)
(* Round trip of the descriptors                                           *)
(***************************************************************************)
SamePosition(p, q) ==
    /\ p.board_ = q.board_
    /\ p.side_to_move_ = q.side_to_move_
    /\ p.castling_ = q.castling_
    /\ p.en_passant_ = q.en_passant_
    /\ p.halfmove_clock_ = q.halfmove_clock_
    /\ p.fullmove_number_ = q.fullmove_number_
    /\ p.key_ = q.key_

Digits == {"0", "1", "2", "3", "4", "5", "6", "7", "8", "9"}

\* six fields separated by single spaces, no two digits in a row in the placement, a dash
\* exactly where there are no castling rights and where there is no en passant square
CanonicalFen(text, p) ==
    /\ Len(SelectSeq(text, LAMBDA ch : ch = " ")) = 5
    /\ \A fields \in {split_spaces(text)} :
           /\ Len(fields) = 6
           /\ \A i \in 1 .. Len(fields[1]) - 1 :
                  ~(fields[1][i] \in Digits /\ fields[1][i + 1] \in Digits)
           /\ (fields[3] = <<"-">>) = (p.castling_ = kCastlingNone)
           /\ (fields[4] = <<"-">>) = (p.en_passant_ = kNoSquare)

\* C17: from_fen(to_fen(p)) is p in board, side, castling rights, en passant square, both
\* clocks and key, to_fen of it is the same text, and the text is canonical
FenRoundTrip ==
    \A text \in {to_fen(pos)} :
        \A back \in {parse_fen(text)} :
            /\ back.ok
            /\ SamePosition(back.pos, pos)
            /\ to_fen(back.pos) = text
            /\ CanonicalFen(text, pos)

\* a position after moves, with some castling rights gone, an en passant square set and
\* the fullmove number advanced
FenRoundTripReached ==
    /\ made # << >>
    /\ pos.castling_ \notin {kCastlingNone, kCastlingAll}
    /\ pos.en_passant_ # kNoSquare
    /\ pos.fullmove_number_ > 1

(***************************************************************************)
(* Specification of Position::from_fen on well-formed and malformed        *)
(* descriptors: the fields of test_position and variants of them with up   *)
(* to MaxAltered fields replaced, cut to or padded to 0 .. 7 fields        *)
(***************************************************************************)
\* piece placements, the first two well-formed
Placements ==
    <<<<"8", "/", "8", "/", "8", "/", "3", "p", "P", "3", "/", "8", "/", "8", "/", "8", "/", "4", "K", "2", "k">>,
      <<"r", "n", "b", "q", "k", "b", "n", "r", "/", "p", "p", "p", "p", "p", "p", "p", "p", "/", "8", "/", "8", "/", "4", "P", "3", "/", "8", "/", "P", "P", "P", "P", "1", "P", "P", "P", "/", "R", "N", "B", "Q", "K", "B", "N", "R">>,
      <<"8", "/", "8", "/", "8", "/", "3", "p", "P", "2", "/", "8", "/", "8", "/", "8", "/", "4", "K", "2", "k">>,
      <<"8", "/", "8", "/", "8", "/", "3", "p", "P", "4", "/", "8", "/", "8", "/", "8", "/", "4", "K", "2", "k">>,
      <<"8", "/", "8", "/", "8", "/", "8", "P", "/", "8", "/", "8", "/", "8", "/", "4", "K", "2", "k">>,
      <<"8", "/", "8", "/", "8", "/", "8", "/", "8", "/", "8", "/", "4", "K", "2", "k">>,
      <<"8", "/", "8", "/", "8", "/", "8", "/", "8", "/", "8", "/", "8", "/", "8", "/", "4", "K", "2", "k">>,
      <<"8", "/", "8", "/", "8", "/", "3", "x", "P", "3", "/", "8", "/", "8", "/", "8", "/", "4", "K", "2", "k">>,
      <<"8", "/", "8", "/", "8", "/", "9", "/", "8", "/", "8", "/", "8", "/", "4", "K", "2", "k">>,
      <<"8", "/", "8", "/", "8", "/", "3", "p", "P", "3", "/", "8", "/", "8", "/", "8", "/", "4", "K", "2">>,
      <<"8", "/", "8", "/", "8", "/", "3", "p", "P", "3", "/", "8", "/", "8", "/", "8", "/", "4", "K", "2", "k", "/">>,
      <<"8", "/", "8", "/", "8">>>>

\* side tokens, the first two well-formed
Sides ==
    <<<<"w">>,
      <<"b">>,
      <<"x">>,
      <<"W">>,
      <<"w", "b">>,
      <<"-">>>>

\* castling fields, the first three well-formed
Castlings ==
    <<<<"-">>,
      <<"K", "Q", "k", "q">>,
      <<"K", "q">>,
      <<"K", "x">>,
      <<"K", "Q", "k", "q", "-">>,
      <<"-", "K">>>>

\* en passant fields, the first three well-formed
EnPassants ==
    <<<<"-">>,
      <<"d", "6">>,
      <<"e", "3">>,
      <<"e", "9">>,
      <<"i", "3">>,
      <<"e">>,
      <<"e", "3", "x">>,
      <<"E", "3">>,
      <<"-", "-">>>>

\* halfmove clocks, the first three well-formed
Halfmoves ==
    <<<<"0">>,
      <<"1", "2">>,
      <<"-", "0">>,
      <<"-", "1">>,
      <<"1", "a">>,
      <<"x">>>>

\* fullmove numbers, the first two well-formed
Fullmoves ==
    <<<<"1">>,
      <<"7">>,
      <<"0">>,
      <<"-", "3">>,
      <<"2", "b">>,
      <<"-">>>>

FenFields == <<Placements, Sides, Castlings, EnPassants, Halfmoves, Fullmoves>>
kExtraField == <<"x">>

MaxAltered == 2

\* the choices of one alternative per field that leave all but the fields of altered at
\* the first alternative
ChoicesAltering(altered) ==
    {[i \in 1 .. 6 |-> IF i \in altered THEN f[i] ELSE 1] :
         f \in {g \in [altered -> 2 .. 12] : \A i \in altered : g[i] <= Len(FenFields[i])}}

RECURSIVE Join(_)
Join(fields) ==
    IF fields = << >> THEN << >>
    ELSE IF Len(fields) = 1 THEN fields[1]
    ELSE fields[1] \o <<" ">> \o Join(Tail(fields))

\* the descriptor of a choice, cut to or padded to n fields
Descriptor(choice, n) ==
    Join(SubSeq([i \in 1 .. 6 |-> FenFields[i][choice[i]]] \o <<kExtraField>>, 1, n))

Descriptors ==
    UNION {{Descriptor(choice, n) : choice \in ChoicesAltering(altered)} :
               <<altered, n>> \in {an \in (SUBSET (1 .. 6)) \X (0 .. 7) :
                                       Cardinality(an[1]) + (IF an[2] = 6 THEN 0 ELSE 1)
                                           <= MaxAltered}}

InitFen ==
    /\ \E text \in Descriptors : parse = [pc |-> "call", text |-> text]
    /\ pos = Idle /\ made = << >> /\ srch = Idle
    /\ ttab = Idle /\ magic = Idle /\ pft = Idle

\* Position::from_fen(text) returns a Position or throws
FromFen ==
    /\ parse.pc = "call"
    /\ parse' = [pc |-> "returned", text |-> parse.text, result |-> parse_fen(parse.text)]
    /\ UNCHANGED <<pos, made, srch, ttab, magic, pft>>

NextFen == FromFen

SpecFen == InitFen /\ [][NextFen]_vars

(***************************************************************************)
(* What is wrong with a descriptor, read off its text                      *)
(***************************************************************************)
PieceLetters == {"P", "N", "B", "R", "Q", "K", "p", "n", "b", "r", "q", "k"}
RunDigits == {"1", "2", "3", "4", "5", "6", "7", "8"}

\* the ranks of a placement: the texts between its slashes
Cuts(placement) ==
    <<0>> \o SelectSeq([i \in 1 .. Len(placement) |-> i], LAMBDA i : placement[i] = "/")
    \o <<Len(placement) + 1>>
RanksOf(placement) ==
    [k \in 1 .. Len(Cuts(placement)) - 1 |->
        SubSeq(placement, Cuts(placement)[k] + 1, Cuts(placement)[k + 1] - 1)]

\* the squares a rank text covers: a digit its value, any other character one
RECURSIVE SquaresOf(_)
SquaresOf(rank) ==
    IF rank = << >> THEN 0
    ELSE (IF Head(rank) \in RunDigits THEN DigitOf(Head(rank)) ELSE 1) + SquaresOf(Tail(rank))

IsNumeral(s) == s # << >> /\ \A i \in 1 .. Len(s) : s[i] \in Digits
IsInteger(s) == IsNumeral(s) \/ (s # << >> /\ s[1] = "-" /\ IsNumeral(Tail(s)))

RECURSIVE NumeralValue(_)
NumeralValue(s) ==
    IF s = << >> THEN 0
    ELSE 10 * NumeralValue(SubSeq(s, 1, Len(s) - 1)) + IndexOf(DecimalChars, s[Len(s)])
IntegerValue(s) == IF s[1] = "-" THEN 0 - NumeralValue(Tail(s)) ELSE NumeralValue(s)

IsSquareName(s) ==
    /\ Len(s) = 2
    /\ s[1] \in {"a", "b", "c", "d", "e", "f", "g", "h"}
    /\ s[2] \in RunDigits

WrongFieldCount(fields) == Len(fields) < 4 \/ Len(fields) > 6
WrongRankWidth(fields) ==
    \E k \in 1 .. Len(RanksOf(fields[1])) : SquaresOf(RanksOf(fields[1])[k]) # 8
WrongRankCount(fields) == Len(RanksOf(fields[1])) # 8
UnknownPiece(fields) ==
    \E i \in 1 .. Len(fields[1]) : fields[1][i] \notin PieceLetters \cup RunDigits \cup {"/"}
WrongSide(fields) == fields[2] \notin {<<"w">>, <<"b">>}
WrongCastling(fields) ==
    fields[3] # <<"-">> /\ \E i \in 1 .. Len(fields[3]) : fields[3][i] \notin CastlingChars
WrongEnPassant(fields) == fields[4] # <<"-">> /\ ~IsSquareName(fields[4])
WrongHalfmove(fields) ==
    Len(fields) > 4 /\ (~IsInteger(fields[5]) \/ IntegerValue(fields[5]) < 0)
WrongFullmove(fields) ==
    Len(fields) > 5 /\ (~IsInteger(fields[6]) \/ IntegerValue(fields[6]) < 1)

Malformed(fields) ==
    \/ WrongFieldCount(fields)
    \/ WrongRankWidth(fields) \/ WrongRankCount(fields) \/ UnknownPiece(fields)
    \/ WrongSide(fields) \/ WrongCastling(fields) \/ WrongEnPassant(fields)
    \/ WrongHalfmove(fields) \/ WrongFullmove(fields)

Returned == parse.pc = "returned"

\* C18: from_fen fails on every descriptor with a wrong number of fields, a wrong rank
\* width or rank count, an unknown piece character, a wrong side token, castling character
\* or en passant field, a halfmove clock that is no integer or negative, or a fullmove
\* number below 1; it accepts a well-formed descriptor of 4 or 5 fields with the missing
\* halfmove clock 0 and the missing fullmove number 1
FromFenRejectsMalformed ==
    Returned =>
        \A fields \in {split_spaces(parse.text)} :
            /\ Malformed(fields) => ~parse.result.ok
            /\ (~Malformed(fields) /\ Len(fields) < 6) =>
                   /\ parse.result.ok
                   /\ parse.result.pos.fullmove_number_ = 1
                   /\ parse.result.pos.halfmove_clock_ =
                          IF Len(fields) = 5 THEN IntegerValue(fields[5]) ELSE 0

\* a descriptor whose only fault is a fullmove number below 1 was rejected
FullmoveRejectedReached ==
    /\ Returned /\ ~parse.result.ok
    /\ \A fields \in {split_spaces(parse.text)} :
           /\ ~WrongFieldCount(fields)
           /\ ~WrongRankWidth(fields) /\ ~WrongRankCount(fields) /\ ~UnknownPiece(fields)
           /\ ~WrongSide(fields) /\ ~WrongCastling(fields) /\ ~WrongEnPassant(fields)
           /\ ~WrongHalfmove(fields)
           /\ WrongFullmove(fields) /\ IsInteger(fields[6])

(***************************************************************************)
(* magic.cpp: magic::init and the globals it fills, with threads that call *)
(* init and then look attacks up.  A table is held as one block per        *)
(* square, a block being zeroed by resize and then filled.                 *)
(***************************************************************************)
MagicSquares == 2
MagicThreads == 2
MaxInitCalls == 2

PieceTables == <<"bishop", "rook">>
SquaresBuilt == 0 .. MagicSquares - 1
Threads == 1 .. MagicThreads

\* the zero-initialised globals
MagicGlobals ==
    [g_initialized |-> FALSE,
     g_entries |-> [p \in 1 .. 2 |-> [sq \in SquaresBuilt |-> [filled |-> FALSE, offset |-> 0]]],
     g_table |-> [p \in 1 .. 2 |-> << >>]]

InitMagic ==
    /\ magic = [g |-> MagicGlobals,
                threads |-> [t \in Threads |-> [pc |-> "idle", piece |-> 1, sq |-> 0, calls |-> 0]],
                builds |-> 0, torn |-> FALSE]
    /\ pos = Idle /\ made = << >> /\ srch = Idle
    /\ ttab = Idle /\ parse = Idle /\ pft = Idle

\* std::vector::resize(n, 0)
vector_resize(v, n) ==
    IF n <= Len(v) THEN SubSeq(v, 1, n) ELSE v \o [i \in 1 .. n - Len(v) |-> "zero"]

\* init_piece for one square, up to table.resize: the entry is written and the table
\* resized to end with the block of the square
init_piece_resize(g, piece, sq) ==
    [g EXCEPT !.g_entries[piece][sq] = [filled |-> TRUE, offset |-> sq],
              !.g_table[piece] = vector_resize(@, sq + 1)]

\* init_piece for one square, the loop that fills the block; a table that another thread
\* has cut short in the meantime is written past its end
init_piece_fill(g, piece, sq) ==
    IF sq + 1 <= Len(g.g_table[piece])
    THEN [g EXCEPT !.g_table[piece][sq + 1] = "filled"]
    ELSE g

\* bishop_attacks / rook_attacks read the entry of the square and the table at its offset:
\* TRUE where they read what init built for the square
lookup_reads_built(g, piece, sq) ==
    /\ g.g_entries[piece][sq].filled
    /\ g.g_entries[piece][sq].offset + 1 <= Len(g.g_table[piece])
    /\ g.g_table[piece][g.g_entries[piece][sq].offset + 1] = "filled"

Building(t) == magic.threads[t].pc \in {"resize", "fill", "set"}

\* what the unsynchronised read of g_initialized can give: the value in memory, or, while
\* another thread is inside init, either value (the read races with that thread's store)
FlagReads(t) ==
    {magic.g.g_initialized} \cup
    (IF \E u \in Threads \ {t} : Building(u) THEN {TRUE, FALSE} ELSE {})

MagicStep(next) == magic' = next /\ UNCHANGED <<pos, made, srch, ttab, parse, pft>>

\* a thread calls magic::init()
InitCall(t) ==
    /\ magic.threads[t].pc \in {"idle", "returned"}
    /\ magic.threads[t].calls < MaxInitCalls
    /\ MagicStep([magic EXCEPT !.threads[t].pc = "check", !.threads[t].calls = @ + 1])

\* if (g_initialized) return;
InitCheck(t) ==
    /\ magic.threads[t].pc = "check"
    /\ \E seen \in FlagReads(t) :
           IF seen
           THEN MagicStep([magic EXCEPT !.threads[t].pc = "returned"])
           ELSE MagicStep([magic EXCEPT !.threads[t].pc = "resize",
                                        !.threads[t].piece = 1,
                                        !.threads[t].sq = 0,
                                        !.builds = @ + 1])

InitPieceResize(t) ==
    /\ magic.threads[t].pc = "resize"
    /\ MagicStep([magic EXCEPT
           !.g = init_piece_resize(@, magic.threads[t].piece, magic.threads[t].sq),
           !.threads[t].pc = "fill"])

\* the block is filled; then the next square, the rook tables after the bishop tables, or
\* the end of the two init_piece calls
InitPieceFill(t) ==
    /\ magic.threads[t].pc = "fill"
    /\ MagicStep([magic EXCEPT
           !.g = init_piece_fill(@, magic.threads[t].piece, magic.threads[t].sq),
           !.threads[t] =
               IF @.sq + 1 < MagicSquares THEN [@ EXCEPT !.pc = "resize", !.sq = @ + 1]
               ELSE IF @.piece = 1 THEN [@ EXCEPT !.pc = "resize", !.piece = 2, !.sq = 0]
               ELSE [@ EXCEPT !.pc = "set"]])

\* g_initialized = true; and init returns
InitSetFlag(t) ==
    /\ magic.threads[t].pc = "set"
    /\ MagicStep([magic EXCEPT !.g.g_initialized = TRUE, !.threads[t].pc = "returned"])

\* an attack lookup by a thread whose init() call has returned
Lookup(t) ==
    /\ magic.threads[t].pc = "returned"
    /\ \E piece \in 1 .. 2, sq \in SquaresBuilt :
           MagicStep([magic EXCEPT
               !.torn = @ \/ ~lookup_reads_built(magic.g, piece, sq)])

NextMagic ==
    \E t \in Threads :
        \/ InitCall(t) \/ InitCheck(t) \/ InitPieceResize(t) \/ InitPieceFill(t)
        \/ InitSetFlag(t) \/ Lookup(t)

SpecMagic == InitMagic /\ [][NextMagic]_vars

\* C19: whatever threads call magic::init, and however often, the tables are built once
\* and no lookup made after an init call has returned reads anything but built tables
MagicInitOnce == magic.builds <= 1 /\ ~magic.torn

(***************************************************************************)
(* movegen::perft as the caller sees it run: one step for each call and    *)
(* one for each return into the loop, on the positions of test_perft       *)
(***************************************************************************)
\* test_perft: position 3
kPosition3 ==
    <<<<"8", "/", "2", "p", "5", "/", "3", "p", "4", "/", "K", "P", "5", "r", "/", "1", "R", "3", "p", "1", "k", "/", "8", "/", "4", "P", "1", "P", "1", "/", "8">>, <<"w">>, <<"-">>, <<"-">>, <<"0">>, <<"1">>>>

\* test_perft: position 4
kPosition4 ==
    <<<<"r", "3", "k", "2", "r", "/", "P", "p", "p", "p", "1", "p", "p", "p", "/", "1", "b", "3", "n", "b", "N", "/", "n", "P", "6", "/", "B", "B", "P", "1", "P", "3", "/", "q", "4", "N", "2", "/", "P", "p", "1", "P", "2", "P", "P", "/", "R", "2", "Q", "1", "R", "K", "1">>, <<"w">>, <<"k", "q">>, <<"-">>, <<"0">>, <<"1">>>>

\* test_perft: position 5
kPosition5 ==
    <<<<"r", "n", "b", "q", "1", "k", "1", "r", "/", "p", "p", "1", "P", "b", "p", "p", "p", "/", "2", "p", "5", "/", "8", "/", "2", "B", "5", "/", "8", "/", "P", "P", "P", "1", "N", "n", "P", "P", "/", "R", "N", "B", "Q", "K", "2", "R">>, <<"w">>, <<"K", "Q">>, <<"-">>, <<"1">>, <<"8">>>>

\* test_perft: position 6
kPosition6 ==
    <<<<"r", "4", "r", "k", "1", "/", "1", "p", "p", "1", "q", "p", "p", "p", "/", "p", "1", "n", "p", "1", "n", "2", "/", "2", "b", "1", "p", "1", "B", "1", "/", "2", "B", "1", "P", "1", "b", "1", "/", "3", "P", "1", "N", "1", "P", "/", "P", "P", "P", "1", "N", "P", "P", "1", "/", "R", "2", "Q", "1", "R", "K", "1">>, <<"w">>, <<"-">>, <<"-">>, <<"0">>, <<"1", "0">>>>

\* the node counts test_perft expects, by depth from 1 on
PerftExpected ==
    <<[fen |-> kStartingFen, nodes |-> <<20, 400, 8902, 197281, 4865609>>],
      [fen |-> kKiwipeteFen, nodes |-> <<48, 2039, 97862, 4085603>>],
      [fen |-> kPosition3, nodes |-> <<14, 191, 2812, 43238, 674624>>],
      [fen |-> kPosition4, nodes |-> <<6, 264, 9467, 422333>>],
      [fen |-> kPosition5, nodes |-> <<44, 1486, 62379, 2103487>>],
      [fen |-> kPosition6, nodes |-> <<42, 1892, 76031, 3288373>>]>>

PerftDepth == 2

\* every position to PerftDepth, the start position one ply deeper
PerftRuns ==
    {[fen |-> PerftExpected[k].fen, depth |-> d] : k \in 1 .. 6, d \in 0 .. PerftDepth}
    \cup {[fen |-> kStartingFen, depth |-> PerftDepth + 1]}

InitPerft ==
    /\ \E run \in PerftRuns :
           /\ pos = from_fen(run.fen).pos
           /\ pft = [pc |-> "call", depth |-> run.depth, stack |-> << >>, ret |-> 0,
                     fen |-> run.fen, asked |-> run.depth, entry |-> from_fen(run.fen).pos]
    /\ made = << >> /\ srch = Idle
    /\ ttab = Idle /\ parse = Idle /\ magic = Idle

\* the depth-1 shortcut on the list before the legality filter
perft_bulk_pseudo(p, moves) == Len(pseudo_legal(p))

\* bulk counting at depth 1: the number of legal moves
perft_bulk(p, moves) == Len(moves)

\* return nodes: to the caller's loop, or out of the outermost call
perft_return(c, p, nodes) == [c |-> [c EXCEPT !.pc = "ret", !.ret = nodes], p |-> p]

\* the loop of the frame on top: make the next move and call perft one ply lower, or
\* return the sum when the moves are used up
perft_loop(c, p) ==
    LET f == c.stack[Len(c.stack)]
    IN  IF f.i > Len(f.moves)
        THEN perft_return([c EXCEPT !.stack = SubSeq(@, 1, Len(@) - 1)], p, f.nodes)
        ELSE [c |-> [c EXCEPT !.pc = "call", !.depth = f.depth - 1],
              p |-> make_move(p, f.moves[f.i])]

\* perft(pos, depth) from its first line to its first call or to its return
perft_entry(c, p) ==
    IF c.depth = 0 THEN perft_return(c, p, 1)
    ELSE LET run == legal_run(p)
         IN  IF c.depth = 1 THEN perft_return(c, run.pos, perft_bulk(run.pos, run.moves))
             ELSE perft_loop([c EXCEPT !.stack = Append(@, [moves |-> run.moves, i |-> 1,
                                                            nodes |-> 0, depth |-> c.depth])],
                             run.pos)

\* back in the loop: nodes += the value returned, unmake_move, and on with the loop
perft_after_child(c, p) ==
    LET f == c.stack[Len(c.stack)]
    IN  perft_loop([c EXCEPT !.stack[Len(c.stack)] =
                        [f EXCEPT !.nodes = @ + c.ret, !.i = @ + 1]],
                   unmake_move(p, f.moves[f.i]))

PerftStep(r) == pft' = r.c /\ pos' = r.p /\ UNCHANGED <<made, srch, ttab, parse, magic>>

PerftEntry == pft.pc = "call" /\ \E r \in {perft_entry(pft, pos)} : PerftStep(r)

PerftAfterChild ==
    /\ pft.pc = "ret" /\ pft.stack # << >>
    /\ \E r \in {perft_after_child(pft, pos)} : PerftStep(r)

\* the outermost call returns to its caller
PerftDone ==
    /\ pft.pc = "ret" /\ pft.stack = << >>
    /\ pft' = [pft EXCEPT !.pc = "done"]
    /\ UNCHANGED <<pos, made, srch, ttab, parse, magic>>

NextPerft == PerftEntry \/ PerftAfterChild \/ PerftDone

SpecPerft == InitPerft /\ [][NextPerft]_vars

\* the distinct moves of p after which the mover's own king is not attacked
LegalMoveSet(p) ==
    LET pseudo == pseudo_legal(p)
    IN  {pseudo[i] : i \in {j \in 1 .. Len(pseudo) :
                               ~KingAttacked(make_move(p, pseudo[j]), p.side_to_move_)}}

\* the number of distinct sequences of d consecutive legal moves from p, counted one
\* position at a time down to the last ply
RECURSIVE SequenceCount(_, _)
RECURSIVE SequenceSum(_, _, _)
SequenceSum(p, ms, d) ==
    IF ms = {} THEN 0
    ELSE LET m == CHOOSE x \in ms : TRUE
         IN  SequenceCount(make_move(p, m), d - 1) + SequenceSum(p, ms \ {m}, d)

SequenceCount(p, d) == IF d = 0 THEN 1 ELSE SequenceSum(p, LegalMoveSet(p), d)

\* C20: when perft(pos, d) has returned, its value is the number of distinct sequences of
\* d consecutive legal moves from pos (1 for d = 0, the size of the legal move list for
\* d = 1), pos is as it was at the call, and on the six positions of the perft table the
\* value is the count the table gives for that depth.
PerftCountsSequences ==
    pft.pc = "done" =>
        /\ pft.ret = SequenceCount(pft.entry, pft.asked)
        /\ pos = pft.entry
        /\ pft.asked = 0 => pft.ret = 1
        /\ pft.asked = 1 => pft.ret = Len(legal(pft.entry))
        /\ \A k \in 1 .. Len(PerftExpected) :
               PerftExpected[k].fen = pft.fen /\ pft.asked >= 1
                   => pft.ret = PerftExpected[k].nodes[pft.asked]

\* perft has returned 2039 for Kiwipete at depth 2, after making and unmaking 48 moves
KiwipeteDepth2Reached ==
    /\ pft.pc = "done" /\ pft.fen = kKiwipeteFen /\ pft.asked = 2
    /\ pft.ret = 2039

(***************************************************************************)
(* Search::is_draw and the repetition of positions during a search         *)
(***************************************************************************)
\* the occurrences of the current key in the key history before the last element, which
\* is the current occurrence
PreviousOccurrences(p) ==
    Cardinality({i \in 1 .. Len(p.key_history_) - 1 : p.key_history_[i] = p.key_})

\* a draw by the clock or by the material on the board
DrawnOtherwise(p) == is_draw([p EXCEPT !.key_history_ = <<p.key_>>])

\* the kings of kQuietFen stepping to and fro: Ka1-b1, Kh8-g8, Kb1-a1, Kg8-h8
kShuffle ==
    <<Move(A1, 1, Normal, PT_None), Move(H8, 62, Normal, PT_None),
      Move(1, A1, Normal, PT_None), Move(62, H8, Normal, PT_None)>>

\* the first n moves of the kings going round and round
Shuffle(n) == [i \in 1 .. n |-> kShuffle[((i - 1) % 4) + 1]]

\* the position after make_move of each move of ms in turn
RECURSIVE play(_, _)
play(p, ms) ==
    IF ms = << >> THEN p
    ELSE LET q == make_move(p, Head(ms))
         IN  IF q.side_to_move_ # p.side_to_move_ THEN play(q, Tail(ms)) ELSE q

MaxShuffle == 7
RepeatDepth == 2

\* search() called through the C++ interface on a Position on which moves have been made
InitPlayed ==
    /\ \E n \in 1 .. MaxShuffle, d \in 1 .. RepeatDepth :
           \E p \in {play(from_fen(kQuietFen).pos, Shuffle(n))} :
               /\ pos = p
               /\ srch = Search(kDefaultSizeMB, SearchLimits(d, NoTimeLimit), p)
    /\ made = << >>
    /\ ttab = Idle /\ parse = Idle /\ magic = Idle /\ pft = Idle

InitRepeat == InitSearch \/ InitPlayed

SpecRepeat == InitRepeat /\ [][NextSearch]_vars

\* negamax or quiescence is entered, has not been told to stop and is to run on pos
Entered(fn) == srch.pc = "call" /\ Top(srch).fn = fn /\ ~should_stop(srch)

\* the step is the entered function's own, and it returns v to its caller at once
ReturnsAtOnce(v) ==
    /\ srch'.pc = "ret" /\ srch'.ret = v
    /\ srch'.stack = SubSeq(srch.stack, 1, Len(srch.stack) - 1)
    /\ pos' = pos

EntryStep == srch.pc = "call" /\ srch'.stack # srch.stack

\* C21 as amended: is_draw reports a repetition exactly when the current key occurs at
\* least twice in the key history counting its current occurrence, that is, at least once
\* before it, and negamax and quiescence then return 0 at once.
DrawOnSecondOccurrence ==
    [][EntryStep /\ ~should_stop(srch) =>
           /\ ~DrawnOtherwise(pos) => (is_draw(pos) <=> PreviousOccurrences(pos) >= 1)
           /\ is_draw(pos) => ReturnsAtOnce(0)]_vars

\* C21 as stated: is_draw reports a repetition exactly when the current key has appeared
\* at least twice before its current occurrence.
DrawOnThirdOccurrence ==
    [][EntryStep /\ ~should_stop(srch) =>
           (~DrawnOtherwise(pos) => (is_draw(pos) <=> PreviousOccurrences(pos) >= 2))]_vars

\* a search has returned 0 from a position that stood on the board once before and is
\* drawn for no other reason
SecondOccurrenceReached ==
    /\ srch.pc = "ret" /\ srch.ret = 0
    /\ ~should_stop(srch) /\ srch.nodes_ > 0
    /\ PreviousOccurrences(pos) = 1 /\ ~DrawnOtherwise(pos)

(***************************************************************************)
(* negamax and the entries of the table that hold mate scores              *)
(***************************************************************************)
MateRange(s) == s > kMateScore - kMaxPly \/ s < Neg(kMateScore) + kMaxPly

\* negamax is entered on pos, goes on to probe, and finds an entry deep enough that
\* store was handed a mate-range score for
MateEntryHit ==
    /\ Entered("negamax") /\ ~is_draw(pos)
    /\ \E hit \in {probe(srch.tt_, pos.key_)} :
           /\ hit.hit /\ hit.entry.depth >= Top(srch).depth
           /\ index(srch.tt_, pos.key_) \in DOMAIN srch.passed
           /\ MateRange(srch.passed[index(srch.tt_, pos.key_)])

\* what the caller of a step of the search sees of it: where it went, what it returned,
\* the position and the window of every frame
Outcome(s, p) ==
    [pc |-> s.pc, ret |-> s.ret, pos |-> p,
     windows |-> [k \in DOMAIN s.stack |-> <<s.stack[k].alpha, s.stack[k].beta>>]]

\* the entry of negamax with the entry of the table for pos taken for too shallow: the
\* stored move is used, the stored score is not
WithoutCutoff ==
    negamax_entry(MS([srch EXCEPT !.tt_.table_[index(srch.tt_, pos.key_)].depth = 0 - 1],
                     pos))


(***************************************************************************)
(* An Engine that is asked to search more than once: the table, and what   *)
(* it holds, outlives the call                                             *)
(***************************************************************************)
MaxSearches == 2

AgainRoots ==
    {[fen |-> f, limits |-> SearchLimits(d, NoTimeLimit)] :
         f \in {kMateInOneFen, kQuietFen}, d \in {ShallowDepth, ShallowDepth + 1}}

\* king and pawn against king and rook, two plies after kPromotionCaptureFen
kTranspositionFen ==
    <<<<"5", "r", "2", "/", "P", "7", "/", "8", "/", "8", "/", "8", "/", "8", "/",
        "3", "K", "2", "k", "1", "/", "8">>, <<"w">>, <<"-">>, <<"-">>, <<"2">>, <<"2">>>>

\* the first call of search(): one of the roots above, a search deep enough for the
\* null move, or a search that reaches nodes again by another order of moves
FirstRoots ==
    AgainRoots \cup {[fen |-> kQuietFen, limits |-> SearchLimits(DeepDepth, NoTimeLimit)],
                     [fen |-> kTranspositionFen,
                      limits |-> SearchLimits(ShallowDepth + 1, NoTimeLimit)]}

InitAgain ==
    /\ \E root \in FirstRoots :
           /\ pos = from_fen(root.fen).pos
           /\ srch = Search(kDefaultSizeMB, root.limits, from_fen(root.fen).pos)
    /\ made = << >>
    /\ ttab = Idle /\ parse = Idle /\ magic = Idle /\ pft = Idle

\* search() has returned and is called again on the same Search, with a Position parsed
\* anew: the members stay as the call before left them
SearchAgain ==
    /\ srch.pc = "done" /\ srch.tt_.age_ < MaxSearches
    /\ \E root \in AgainRoots :
           \E p \in {from_fen(root.fen).pos} :
               /\ pos' = p
               /\ srch' = [Search(kDefaultSizeMB, root.limits, p) EXCEPT
                               !.tt_ = srch.tt_, !.killers_ = srch.killers_,
                               !.history_ = srch.history_, !.nodes_ = srch.nodes_,
                               !.has_deadline_ = srch.has_deadline_,
                               !.passed = srch.passed]
    /\ UNCHANGED <<made, ttab, parse, magic, pft>>

NextAgain ==
    \/ SearchBegin \/ IterationStart \/ RootMove \/ RootReturn \/ IterationEnd
    \/ NegamaxEntry \/ NegamaxAfterNull \/ NegamaxAfterChild \/ NegamaxAfterQuiescence
    \/ QuiescenceEntry \/ QuiescenceAfterEvasion \/ QuiescenceAfterNoisy
    \/ SearchAgain

SpecAgain == InitAgain /\ [][NextAgain]_vars


\* C22: when negamax finds an entry that was stored with a mate-range score, as handed
\* to store, it goes on as if the entry were too shallow to use: it neither returns the
\* stored score nor narrows its window by it, and only takes the stored move for ordering.
MateEntriesSkipCutoff ==
    [][MateEntryHit /\ EntryStep =>
           \A r \in {WithoutCutoff} : Outcome(srch', pos') = Outcome(r.s, r.p)]_vars


\* C27: no call of store is made by a search() that has had should_stop() return true:
\* the last call of store was made before any poll said stop.
NoStoreAfterStop == ~srch.last_store.stopped


\* C28 as stated: the last entry negamax stored as Exact has a score strictly inside the
\* window its moves were searched with (alpha after the probe of the table, and beta),
\* and a score that did not exceed that alpha was stored as Upper.
ExactInsideSearchedWindow ==
    \A st \in {srch.last_store} :
        st.n > 0 =>
            /\ st.bound = Exact => st.alpha_loop < st.score /\ st.score < st.beta
            /\ st.score <= st.alpha_loop => st.bound = Upper

\* C28 as amended: the last entry negamax stored as Exact has a score strictly above the
\* alpha the node was called with and strictly below the beta its moves were searched
\* with, and a score that did not exceed the alpha of the call was stored as Upper.
ExactAboveOriginalAlpha ==
    \A st \in {srch.last_store} :
        st.n > 0 =>
            /\ st.bound = Exact => st.alpha_orig < st.score /\ st.score < st.beta
            /\ st.score <= st.alpha_orig => st.bound = Upper

\* an entry stored as Exact at a node where a Lower entry had raised alpha, with a
\* best score that did not exceed the raised alpha
ExactAtRaisedAlphaReached ==
    /\ srch.last_store.n > 0
    /\ srch.last_store.bound = Exact
    /\ srch.last_store.alpha_orig < srch.last_store.alpha_loop
    /\ srch.last_store.score <= srch.last_store.alpha_loop


(***************************************************************************)
(* Specification of the move ordering: beta cutoffs by quiet moves fill    *)
(* the killer slots and the history counters as negamax does, and          *)
(* order_moves is called on the legal list of the position                 *)
(***************************************************************************)
MaxCutoffs == 2
OrderQuiets == 3

\* the depths of the nodes at which the cutoffs happen: search() takes any max_depth
CutoffDepths == {3, 34, 90}

\* the plies of the nodes: the same side is to move at both
OrderPlies == {1, 3}

OrderFens == {kKiwipeteFen, kPosition5, kEnPassantFen}

is_capture(p, m) == piece_at(p.board_, m.to_sq).type # PT_None
is_ep(m) == m.flag = EnPassant
is_promo(m) == m.flag = Promotion /\ m.promotion # PT_None
is_quiet(p, m) == ~is_capture(p, m) /\ ~is_ep(m) /\ ~is_promo(m)

\* the first OrderQuiets quiet moves of the legal list
CutoffMoves(p, ml) ==
    LET quiets == {k \in 1 .. Len(ml) : is_quiet(p, ml[k])}
    IN  {ml[k] : k \in {k \in quiets : Cardinality({j \in quiets : j < k}) < OrderQuiets}}

\* the table move handed to order_moves: none, or a move of the list
TTMoves(ml) == {kNullMove, ml[1], ml[Len(ml)]}

\* the members of Search that move_score reads, after reset_heuristics, and the legal
\* list of the position as movegen::legal gives it
Heuristics(moves) ==
    [pc |-> "heuristics", killers_ |-> << >>, history_ |-> << >>, cutoffs |-> 0,
     moves |-> moves, ml |-> << >>, tt_move |-> kNullMove, ply |-> 0]

InitOrder ==
    /\ \E f \in OrderFens :
           \E p \in {from_fen(f).pos} : pos = p /\ srch = Heuristics(legal(p))
    /\ made = << >>
    /\ ttab = Idle /\ parse = Idle /\ magic = Idle /\ pft = Idle

\* negamax, lines 293-299: a quiet move raised alpha to beta
BetaCutoff ==
    /\ srch.pc = "heuristics" /\ srch.cutoffs < MaxCutoffs
    /\ \E m \in CutoffMoves(pos, srch.moves), ply \in OrderPlies, depth \in CutoffDepths :
           srch' = [update_history(record_killer(srch, m, ply), pos.side_to_move_, m, depth)
                        EXCEPT !.cutoffs = @ + 1]
    /\ UNCHANGED <<pos, made, ttab, parse, magic, pft>>

\* negamax, line 235: the legal list is ordered
OrderMoves ==
    /\ srch.pc = "heuristics"
    /\ \E tt_move \in TTMoves(srch.moves), ply \in OrderPlies :
           srch' = [srch EXCEPT !.pc = "ordered",
                                !.ml = order_moves(srch, pos, srch.moves, tt_move, ply),
                                !.tt_move = tt_move, !.ply = ply]
    /\ UNCHANGED <<pos, made, ttab, parse, magic, pft>>

NextOrder == BetaCutoff \/ OrderMoves

SpecOrder == InitOrder /\ [][NextOrder]_vars

Ordered == srch.pc = "ordered"
OrderedScore(k) == move_score(srch, pos, srch.ml[k], srch.tt_move, srch.ply)
IsTTMove(m) == ~is_null(srch.tt_move) /\ m = srch.tt_move
IsPromotion(m) == ~IsTTMove(m) /\ is_promo(m)
IsCapture(m) == ~IsTTMove(m) /\ ~is_promo(m) /\ (is_capture(pos, m) \/ is_ep(m))
IsQuiet(m) == ~IsTTMove(m) /\ is_quiet(pos, m)

OrderedPermutation ==
    /\ Len(srch.ml) = Len(srch.moves)
    /\ \A k \in 1 .. Len(srch.ml) :
           Cardinality({j \in 1 .. Len(srch.ml) : srch.ml[j] = srch.ml[k]})
               = Cardinality({j \in 1 .. Len(srch.ml) : srch.moves[j] = srch.ml[k]})
OrderedNonIncreasing ==
    \A k \in 1 .. Len(srch.ml) - 1 : OrderedScore(k) >= OrderedScore(k + 1)
TTMoveFirst ==
    (\E k \in 1 .. Len(srch.ml) : IsTTMove(srch.ml[k])) => IsTTMove(srch.ml[1])
PromotionsBeforeCaptures ==
    \A i, j \in 1 .. Len(srch.ml) :
        IsPromotion(srch.ml[i]) /\ IsCapture(srch.ml[j]) => i < j
CapturesBeforeQuiets ==
    \A i, j \in 1 .. Len(srch.ml) :
        IsCapture(srch.ml[i]) /\ IsQuiet(srch.ml[j]) => i < j

\* C23: after order_moves the list is a permutation of the legal list in non-increasing
\* move_score, with the table move first, every promotion before every capture that
\* does not promote, and every capture before every quiet move, whatever the killer
\* slots and the history counters hold.
OrderFollowsPriority ==
    Ordered => /\ OrderedPermutation
               /\ OrderedNonIncreasing
               /\ TTMoveFirst
               /\ PromotionsBeforeCaptures
               /\ CapturesBeforeQuiets


(***************************************************************************)
(* Specification of the Position object on positions with castling rights  *)
(***************************************************************************)
\* test_movegen: both sides may castle on either side
kCastlingFen ==
    <<<<"r", "3", "k", "2", "r", "/", "p", "p", "p", "p", "p", "p", "p", "p", "/", "8", "/",
        "8", "/", "8", "/", "8", "/", "P", "P", "P", "P", "P", "P", "P", "P", "/",
        "R", "3", "K", "2", "R">>, <<"w">>, <<"K", "Q", "k", "q">>, <<"-">>, <<"0">>, <<"1">>>>

\* test_movegen: the rook on f2 attacks f1
kCastlingThroughAttackFen ==
    <<<<"4", "k", "3", "/", "8", "/", "8", "/", "8", "/", "8", "/", "8", "/", "5", "r", "2", "/",
        "R", "3", "K", "2", "R">>, <<"w">>, <<"K", "Q">>, <<"-">>, <<"0">>, <<"1">>>>

\* all rights held and the corners open to capture: Bg2xa8, Ra1xa8, Rh1xh8
kCornerCaptureFen ==
    <<<<"r", "3", "k", "2", "r", "/", "8", "/", "8", "/", "8", "/", "8", "/", "8", "/",
        "6", "B", "1", "/", "R", "3", "K", "2", "R">>,
      <<"w">>, <<"K", "Q", "k", "q">>, <<"-">>, <<"0">>, <<"1">>>>

CastlingFens ==
    {kCastlingFen, kCastlingThroughAttackFen, kCheckEvasionFen, kKiwipeteFen, kCornerCaptureFen}

InitCastling ==
    /\ \E fen \in CastlingFens : pos = from_fen(fen).pos
    /\ made = << >>
    /\ srch = Idle
    /\ ttab = Idle /\ parse = Idle /\ magic = Idle /\ pft = Idle

SpecCastling == InitCastling /\ [][Next]_vars

\* a piece of colour by stands where it attacks sq, read off the mailbox
AttackedOnBoard(p, sq, by) ==
    \E mailbox \in {p.board_.mailbox_} :
        \E from \in {s \in Squares : mailbox[s].type # PT_None /\ mailbox[s].color = by} :
            Attacks(mailbox, from, sq)

EmptyOnBoard(p, sqs) == \A sq \in sqs : p.board_.mailbox_[sq] = kNoPiece

\* what the rules ask of a castling move m of the side to move
CastlingAllowed(p, m) ==
    LET us == p.side_to_move_
        them == opposite(us)
        rank == IF us = White THEN 0 ELSE 7
        e_sq == make_square(4, rank)
        kingside == m.flag = CastleKingside
        right == IF kingside THEN (IF us = White THEN kWhiteKingside ELSE kBlackKingside)
                 ELSE (IF us = White THEN kWhiteQueenside ELSE kBlackQueenside)
        between == IF kingside THEN {make_square(5, rank), make_square(6, rank)}
                   ELSE {make_square(1, rank), make_square(2, rank), make_square(3, rank)}
        passed == IF kingside THEN {make_square(5, rank)}
                  ELSE {make_square(2, rank), make_square(3, rank)}
    IN  /\ HasRight(p.castling_, right)
        /\ EmptyOnBoard(p, between)
        /\ p.board_.mailbox_[m.from_sq] = Piece(us, King)
        /\ ~AttackedOnBoard(p, m.from_sq, them)
        /\ \A sq \in passed : ~AttackedOnBoard(p, sq, them)

IsCastling(m) == m.flag = CastleKingside \/ m.flag = CastleQueenside

\* C24: every castling move of the pseudo-legal list has its right, empty squares
\* between king and rook, a king that is not in check and no attacked square on the
\* king's way; no castling move of the legal list ends on an attacked square.
CastlingOnlyWhenAllowed ==
    \A p \in {pos} :
        /\ \A ml \in {pseudo_legal(p)} :
               \A k \in 1 .. Len(ml) : IsCastling(ml[k]) => CastlingAllowed(p, ml[k])
        /\ \A ml \in {legal(p)} :
               \A k \in 1 .. Len(ml) :
                   IsCastling(ml[k]) =>
                       ~AttackedOnBoard(p, ml[k].to_sq, opposite(p.side_to_move_))

\* the side to move castles on one side and may not on the other, where it holds the
\* right and the squares are empty, because a square on the king's way is attacked
CastlingWithheldReached ==
    \E p \in {pos} :
        \E ml \in {pseudo_legal(p)} :
            LET us == p.side_to_move_
                rank == IF us = White THEN 0 ELSE 7
                ks == IF us = White THEN kWhiteKingside ELSE kBlackKingside
            IN  /\ \E k \in 1 .. Len(ml) : ml[k].flag = CastleQueenside
                /\ \A k \in 1 .. Len(ml) : ml[k].flag # CastleKingside
                /\ HasRight(p.castling_, ks)
                /\ EmptyOnBoard(p, {make_square(5, rank), make_square(6, rank)})
                /\ \E sq \in {make_square(5, rank), make_square(6, rank)} :
                       AttackedOnBoard(p, sq, opposite(us))


\* the rights of a castling_ value as a set
RightsSet(cr) ==
    {r \in {kWhiteKingside, kWhiteQueenside, kBlackKingside, kBlackQueenside} : HasRight(cr, r)}

\* the rights a move loses by touching sq: both of a colour on its king's home square,
\* the matching one on a rook corner, none elsewhere
ClearedBy(sq) ==
    IF sq = make_square(4, 0) THEN {kWhiteKingside, kWhiteQueenside}
    ELSE IF sq = make_square(4, 7) THEN {kBlackKingside, kBlackQueenside}
    ELSE IF sq = make_square(0, 0) THEN {kWhiteQueenside}
    ELSE IF sq = make_square(7, 0) THEN {kWhiteKingside}
    ELSE IF sq = make_square(0, 7) THEN {kBlackQueenside}
    ELSE IF sq = make_square(7, 7) THEN {kBlackKingside}
    ELSE {}

MoveMade == Len(made') = Len(made) + 1
MoveUnmade == Len(made') = Len(made) - 1

\* the rook of the side that is not to move stands on its corner sq, with the right
CornerRook(p, sq) ==
    /\ ClearedBy(sq) # {} /\ Cardinality(ClearedBy(sq)) = 1
    /\ p.board_.mailbox_[sq] = Piece(opposite(p.side_to_move_), Rook)
    /\ ClearedBy(sq) \subseteq RightsSet(p.castling_)

\* C25: make_move leaves the rights of before the move less those of the two squares
\* it touches, so it adds none and a capture on a rook corner takes the right of that
\* corner; unmake_move puts back the rights of before the move.
CastlingRightsFollowMask ==
    [][/\ MoveMade =>
             \A m \in {made'[Len(made')].move} :
                 /\ pos'.castling_ \in 0 .. kCastlingAll
                 /\ RightsSet(pos'.castling_)
                        = RightsSet(pos.castling_) \ (ClearedBy(m.from_sq) \cup ClearedBy(m.to_sq))
                 /\ RightsSet(pos'.castling_) \subseteq RightsSet(pos.castling_)
                 /\ CornerRook(pos, m.to_sq) =>
                        ClearedBy(m.to_sq) \cap RightsSet(pos'.castling_) = {}
       /\ MoveUnmade => pos'.castling_ = LastMade.before.castling_]_vars

\* a rook was taken on its corner while its side held the right of that corner
CornerCaptureReached ==
    /\ made # << >>
    /\ CornerRook(LastMade.before, LastMade.move.to_sq)
    /\ RightsSet(pos.castling_) # RightsSet(LastMade.before.castling_)


\* C26: after any nesting of make_move and unmake_move the key history is one longer
\* than the undo stack, which holds one entry for each move not yet unmade, it ends
\* with key(), and repetition_count() is at least 1; a position that was parsed and
\* has no move made on it has an empty undo stack and a key history of its key alone.
KeyHistoryFollowsUndoStack ==
    /\ Len(pos.history_) = Len(made)
    /\ Len(pos.key_history_) = Len(pos.history_) + 1
    /\ pos.key_history_[Len(pos.key_history_)] = pos.key_
    /\ repetition_count(pos) >= 1
    /\ made = << >> => pos.history_ = << >> /\ pos.key_history_ = <<pos.key_>>

\* two moves are made and not unmade, and the key has changed with each
TwoMovesMadeReached ==
    /\ Len(made) = 2
    /\ Len(pos.key_history_) = 3
    /\ pos.key_history_[1] # pos.key_history_[2]
    /\ pos.key_history_[2] # pos.key_history_[3]


(***************************************************************************)
(* Specification of the Position object in games from the start position:  *)
(* the opening moves of a few games are played, then any legal moves        *)
(***************************************************************************)
\* games as pairs of squares: the bishops come out and both sides may castle; the
\* bishops take the pawns on g7 and g2 and stand before the rooks; the a-pawns advance
StartLines ==
    {<<<<12, 28>>, <<52, 36>>, <<6, 21>>, <<62, 45>>, <<5, 26>>, <<61, 34>>>>,
     <<<<9, 17>>, <<49, 41>>, <<2, 9>>, <<58, 49>>, <<9, 54>>, <<49, 14>>>>,
     <<<<8, 24>>, <<48, 32>>>>}

\* the position after the legal moves between the squares of line, made in turn; it
\* stops where no legal move goes between the two squares
RECURSIVE follow(_, _)
follow(p, line) ==
    IF line = << >> THEN p
    ELSE LET ml == legal(p)
             ks == {k \in 1 .. Len(ml) : /\ ml[k].from_sq = line[1][1]
                                         /\ ml[k].to_sq = line[1][2]}
         IN  IF ks = {} THEN p
             ELSE follow(make_move(p, ml[CHOOSE k \in ks : \A j \in ks : k <= j]), Tail(line))

InitStart ==
    /\ \E line \in StartLines :
           \E n \in 0 .. Len(line) :
               \E p \in {follow(from_fen(kStartingFen).pos, SubSeq(line, 1, n))} :
                   Len(p.history_) = n /\ pos = p
    /\ made = << >>
    /\ srch = Idle
    /\ ttab = Idle /\ parse = Idle /\ magic = Idle /\ pft = Idle

SpecStart == InitStart /\ [][Next]_vars

\* the squares a right needs its king and its rook on
HomeOf(right) ==
    IF right = kWhiteKingside THEN [color |-> White, king |-> E1, rook |-> H1]
    ELSE IF right = kWhiteQueenside THEN [color |-> White, king |-> E1, rook |-> A1]
    ELSE IF right = kBlackKingside THEN [color |-> Black, king |-> E8, rook |-> H8]
    ELSE [color |-> Black, king |-> E8, rook |-> A8]

AtHome(p, right) ==
    /\ p.board_.mailbox_[HomeOf(right).king] = Piece(HomeOf(right).color, King)
    /\ p.board_.mailbox_[HomeOf(right).rook] = Piece(HomeOf(right).color, Rook)

\* the right a castling move of the side to move in p uses
RightOf(p, m) ==
    IF m.flag = CastleKingside
    THEN (IF p.side_to_move_ = White THEN kWhiteKingside ELSE kBlackKingside)
    ELSE (IF p.side_to_move_ = White THEN kWhiteQueenside ELSE kBlackQueenside)

\* C29: in a game from the start position every right that is still held has its king
\* and its rook on their home squares, and the last move made, if it castled, found
\* the mover's rook on the corner it slid from.
RightsImplyHomeSquares ==
    /\ \A right \in RightsSet(pos.castling_) : AtHome(pos, right)
    /\ made # << >> /\ IsCastling(LastMade.move) =>
           LastMade.before.board_.mailbox_[HomeOf(RightOf(LastMade.before, LastMade.move)).rook]
               = Piece(LastMade.before.side_to_move_, Rook)

\* a side has castled, a rook has left its corner or was taken there, and the other
\* side still holds a right
RightsPartlyLostReached ==
    /\ made # << >>
    /\ RightsSet(pos.castling_) # {}
    /\ RightsSet(pos.castling_) # RightsSet(LastMade.before.castling_)
    /\ \/ IsCastling(LastMade.move)
       \/ LastMade.before.board_.mailbox_[LastMade.move.from_sq].type = Rook
       \/ LastMade.before.board_.mailbox_[LastMade.move.to_sq].type = Rook


(***************************************************************************)
(* A search of more than kTimeCheckInterval nodes with a deadline, next to *)
(* the searches of SpecSearch: the deadline is looked at again when the    *)
(* counter reaches kTimeCheckInterval.  cancel() is not called during the  *)
(* long search.                                                            *)
(***************************************************************************)
kLongSearch == [fen |-> kPosition6, limits |-> SearchLimits(3, TimeLimitMs)]

InitLong ==
    /\ \E p \in {from_fen(kLongSearch.fen).pos} :
           /\ pos = p
           /\ srch = [Search(kDefaultSizeMB, kLongSearch.limits, p) EXCEPT
                          !.cancels = MaxCancels]
    /\ made = << >>
    /\ ttab = Idle /\ parse = Idle /\ magic = Idle /\ pft = Idle

InitTimed == InitSearch \/ InitLong

SpecTimed == InitTimed /\ [][NextSearch]_vars

(***************************************************************************)
(* Claims about the polls of should_stop and the node counter              *)
(***************************************************************************)
\* in the step of the first poll that says stop, and from then on until search() has
\* returned, should_stop() holds of the Search and the counter keeps its value
StickyStep ==
    srch'.stop_iter # 0 /\ srch.pc # "done" =>
        should_stop(srch') /\ srch'.nodes_ = srch.nodes_

\* the counter goes up by one, from a value the poll before it saw
CountedStep ==
    srch'.nodes_ # srch.nodes_ =>
        srch'.nodes_ = srch.nodes_ + 1 /\ srch'.seen = srch.nodes_

\* search() returns with a counter value that its last poll saw
ReturnStep == srch.pc # "done" /\ srch'.pc = "done" => srch'.seen = srch'.nodes_

\* search() goes into its loop over the depths: the root has a legal move and
\* max_depth is at least 1
EntersLoop == srch'.root_moves # << >> /\ srch'.limits.max_depth >= 1

\* C30 as stated: within one search() a stop, once seen by a poll, is seen by every
\* later poll, as the counter is not incremented after it; every value of the counter
\* is seen by a poll, the value search() returns with included.
StopIsStickyAndCounterSeen ==
    [][StickyStep /\ CountedStep /\ ReturnStep]_vars

\* C30 as amended: the same, where the value search() returns with is seen by a poll
\* if search() went into its loop over the depths.
StopIsStickyAndCounterSeenInLoop ==
    [][StickyStep /\ CountedStep /\ (EntersLoop => ReturnStep)]_vars

\* search() has returned after the deadline stopped it at a poll that saw the counter
\* on a multiple of kTimeCheckInterval other than 0
DeadlineStopReached ==
    /\ srch.pc = "done" /\ srch.stop_iter # 0
    /\ ~srch.cancelled_ /\ srch.has_deadline_ /\ srch.expired
    /\ srch.nodes_ > 0 /\ srch.nodes_ % kTimeCheckInterval = 0
    /\ srch.seen = srch.nodes_

=============================================================================
